---- MODULE Spec2Model ----
(***************************************************************************)
(* A model of fipy/meshes/abstractMesh.py: the connectivity arrays of a    *)
(* mesh, AbstractMesh._connectFaces (periodic stitching of two exterior    *)
(* face lists), the exteriorFaces setter, and                              *)
(* AbstractMesh._getAddedMeshValues (concatenation of two meshes).         *)
(*                                                                         *)
(* Arrays indexed by an ID are functions over 0..n-1; Python lists given   *)
(* as arguments are sequences.  An absent (masked) entry is Masked.        *)
(* Lengths are kept as integers: every distance array holds TWICE the      *)
(* real distance (a unit cell has face-to-cell distance 1/2).              *)
(***************************************************************************)
EXTENDS Integers, Sequences, FiniteSets, TLC

\* ------------------------------------------------------------------------
\* Bounds of the model and constants of the program
\* ------------------------------------------------------------------------

\* number of operations applied to the mesh
MaxCalls == 2
\* number of faces an assignment to exteriorFaces flips
MaxFlip == 1
\* the value numerix pads with and MA.masked_values turns into "absent"
Masked == -1
\* subscriptions made on one mesh
MaxSubscriptions == 3
\* owners a consumer has at one time
MaxOwners == 2
\* frames the interpreter allows on its stack (sys.getrecursionlimit(), cut down)
RecursionLimit == 4

\* ------------------------------------------------------------------------
\* numerix helpers: take, put, broadcasting
\* ------------------------------------------------------------------------

Range(s) == {s[i] : i \in 1..Len(s)}

SeqsUpTo(S, n) == UNION {[1..k -> S] : k \in 1..n}

Max(a, b) == IF a >= b THEN a ELSE b

Min(a, b) == IF a <= b THEN a ELSE b

\* a.take(ids): the entries of array a at the positions ids, in order
Take(a, ids) == [i \in 1..Len(ids) |-> a[ids[i]]]

\* The element of v that position i of a broadcast/cycled operand reads:
\* numpy's put cycles through values (values[i % nv]) and an operand of
\* length 1 broadcasts to every position.
Cyc(v, i) == v[((i - 1) % Len(v)) + 1]

\* a.put(ids, values): a[ids[i]] = values[i % nv] for i = 0, 1, ... in order,
\* so that the last write to a repeated index is the one that stays.
PutLast(ids, x) == CHOOSE i \in 1..Len(ids) :
                      /\ ids[i] = x
                      /\ \A j \in 1..Len(ids) : ids[j] = x => j <= i

Put(a, ids, values) ==
    [x \in DOMAIN a |->
        IF x \in Range(ids) THEN Cyc(values, PutLast(ids, x)) ELSE a[x]]

\* numpy broadcasting of two 1-D operands of lengths n and m
Broadcastable(n, m) == n = m \/ n = 1 \/ m = 1

\* ------------------------------------------------------------------------
\* The meshes: uniform grids as the Grid1D / Grid2D classes number them
\* ------------------------------------------------------------------------

\* faceCellIDs column of a face: the cells whose column of cellFaceIDs holds
\* the face, lowest cell ID first; the second entry is Masked on the boundary
FaceCells(cells) ==
    LET lo == CHOOSE c \in cells : \A d \in cells : c <= d
    IN  IF Cardinality(cells) = 1 THEN <<lo, Masked>>
        ELSE <<lo, CHOOSE c \in cells : c # lo>>

\* Grid2D(nx, ny, dx, dy) translated by (ox, oy).  Horizontal faces come
\* first, row by row from the bottom, then the vertical faces; a cell lists
\* its faces as bottom, right, top, left.
Grid2D(nx, ny, dx, dy, ox, oy) ==
    LET nV == (nx + 1) * (ny + 1)
        nH == nx * (ny + 1)
        nF == nH + (nx + 1) * ny
        nC == nx * ny
        V  == 0..(nV - 1)
        F  == 0..(nF - 1)
        C  == 0..(nC - 1)
        horiz(f) == f < nH
        fi(f) == IF horiz(f) THEN f % nx ELSE (f - nH) % (nx + 1)
        fj(f) == IF horiz(f) THEN f \div nx ELSE (f - nH) \div (nx + 1)
        cfi == [c \in C |->
                  LET i == c % nx
                      j == c \div nx
                  IN  << j * nx + i,
                         nH + j * (nx + 1) + i + 1,
                         (j + 1) * nx + i,
                         nH + j * (nx + 1) + i >>]
        owners(f) == {c \in C : f \in Range(cfi[c])}
        fc == [f \in F |-> FaceCells(owners(f))]
        fv == [f \in F |->
                  LET i == fi(f)
                      j == fj(f)
                      a == j * (nx + 1) + i
                  IN  IF horiz(f)
                      THEN (IF j = 0 THEN <<a + 1, a>> ELSE <<a, a + 1>>)
                      ELSE (IF i = 0 THEN <<a, a + nx + 1>> ELSE <<a + nx + 1, a>>)]
        half(f) == IF horiz(f) THEN dy ELSE dx
    IN  [ dim |-> 2,
          numberOfVertices |-> nV,
          numberOfFaces |-> nF,
          numberOfCells |-> nC,
          vertexCoords |-> [v \in V |-> <<ox + (v % (nx + 1)) * dx,
                                          oy + (v \div (nx + 1)) * dy>>],
          faceVertexIDs |-> fv,
          cellFaceIDs |-> cfi,
          faceCellIDs |-> fc,
          faceNormals |-> [f \in F |->
                             IF horiz(f)
                             THEN (IF fj(f) = 0 THEN <<0, -1>> ELSE <<0, 1>>)
                             ELSE (IF fi(f) = 0 THEN <<-1, 0>> ELSE <<1, 0>>)],
          faceAreas |-> [f \in F |-> IF horiz(f) THEN dx ELSE dy],
          faceToCellDistances |-> [f \in F |->
                             <<half(f), IF fc[f][2] = Masked THEN Masked ELSE half(f)>>],
          cellDistances |-> [f \in F |->
                             IF fc[f][2] = Masked THEN half(f) ELSE 2 * half(f)],
          exteriorFaces |-> {f \in F : fc[f][2] = Masked},
          interiorFaces |-> {f \in F : fc[f][2] # Masked} ]

\* Grid1D(nx, dx) translated by ox: the faces are the vertices, a cell lists
\* its left and its right face.
Grid1D(nx, dx, ox) ==
    LET F == 0..nx
        C == 0..(nx - 1)
        cfi == [c \in C |-> <<c, c + 1>>]
        owners(f) == {c \in C : f \in Range(cfi[c])}
        fc == [f \in F |-> FaceCells(owners(f))]
    IN  [ dim |-> 1,
          numberOfVertices |-> nx + 1,
          numberOfFaces |-> nx + 1,
          numberOfCells |-> nx,
          vertexCoords |-> [v \in F |-> <<ox + v * dx>>],
          faceVertexIDs |-> [f \in F |-> <<f>>],
          cellFaceIDs |-> cfi,
          faceCellIDs |-> fc,
          faceNormals |-> [f \in F |-> IF f = 0 THEN <<-1>> ELSE <<1>>],
          faceAreas |-> [f \in F |-> 1],
          faceToCellDistances |-> [f \in F |->
                             <<dx, IF fc[f][2] = Masked THEN Masked ELSE dx>>],
          cellDistances |-> [f \in F |->
                             IF fc[f][2] = Masked THEN dx ELSE 2 * dx],
          exteriorFaces |-> {f \in F : fc[f][2] = Masked},
          interiorFaces |-> {f \in F : fc[f][2] # Masked} ]

\* The parts of a mesh the concatenation reads, for one cell given by its
\* vertices, its faces and the doubled distance d of its faces to its centre.
\* The distances of a triangle or a tetrahedron are not integers; d is
\* rounded, which leaves the threshold of the default resolution between 0
\* and the least distance of two vertices.
OneCell(dim, coords, fv, d) ==
    [ dim |-> dim,
      numberOfVertices |-> Len(coords),
      numberOfFaces |-> Len(fv),
      numberOfCells |-> 1,
      vertexCoords |-> [v \in 0..(Len(coords) - 1) |-> coords[v + 1]],
      faceVertexIDs |-> [f \in 0..(Len(fv) - 1) |-> fv[f + 1]],
      cellFaceIDs |-> [c \in {0} |-> [k \in 1..Len(fv) |-> k - 1]],
      cellDistances |-> [f \in 0..(Len(fv) - 1) |-> d],
      exteriorFaces |-> 0..(Len(fv) - 1),
      interiorFaces |-> {} ]

\* a mesh of one triangle: the lower left half of the unit square at (ox, 0)
Triangle(ox) ==
    OneCell(2, << <<ox, 0>>, <<ox + 1, 0>>, <<ox, 1>> >>,
            << <<0, 1>>, <<1, 2>>, <<2, 0>> >>, 1)

\* a mesh of one quadrilateral: the unit square at (ox, 0)
Square(ox) ==
    OneCell(2, << <<ox, 0>>, <<ox + 1, 0>>, <<ox, 1>>, <<ox + 1, 1>> >>,
            << <<1, 0>>, <<3, 1>>, <<2, 3>>, <<0, 2>> >>, 1)

\* a mesh of one tetrahedron: the corner of the unit cube at (ox, 0, 0)
Tetrahedron(ox) ==
    OneCell(3, << <<ox, 0, 0>>, <<ox + 1, 0, 0>>, <<ox, 1, 0>>, <<ox, 0, 1>> >>,
            << <<0, 1, 2>>, <<0, 1, 3>>, <<0, 2, 3>>, <<1, 2, 3>> >>, 1)

\* a mesh of one hexahedron: the unit cube at (ox, 0, 0)
Cube(ox) ==
    OneCell(3, << <<ox, 0, 0>>, <<ox + 1, 0, 0>>, <<ox, 1, 0>>, <<ox + 1, 1, 0>>,
                  <<ox, 0, 1>>, <<ox + 1, 0, 1>>, <<ox, 1, 1>>, <<ox + 1, 1, 1>> >>,
            << <<0, 1, 3, 2>>, <<4, 5, 7, 6>>, <<0, 1, 5, 4>>,
               <<2, 3, 7, 6>>, <<0, 2, 6, 4>>, <<1, 3, 7, 5>> >>, 1)

\* The mesh the face connector is explored on: Grid2D(nx = 2, ny = 1,
\* dx = 1., dy = 1.), the smallest grid that has an interior face, two
\* cells, and two faces on a side.
BaseMesh == Grid2D(2, 1, 1, 1, 0, 0)

\* Grid2D(nx = 2, ny = 1, dx = (1., 2.), dy = 1.): the same cells, the right
\* one twice as wide, so that the left and the right boundary face are at
\* different distances from their cells
StretchedMesh ==
    [BaseMesh EXCEPT
        !.vertexCoords = [v \in DOMAIN @ |-> IF v % 3 = 2 THEN <<3, @[v][2]>> ELSE @[v]],
        !.faceAreas = [@ EXCEPT ![1] = 2, ![3] = 2],
        !.faceToCellDistances = [@ EXCEPT ![5] = <<1, 2>>, ![6] = <<2, Masked>>],
        !.cellDistances = [@ EXCEPT ![5] = 3, ![6] = 2]]

\* The mesh of the doctest of _connectFaces: Grid2D(nx = 2, ny = 2, dx = 1., dy = 1.)
DocMesh == Grid2D(2, 2, 1, 1, 0, 0)

\* ------------------------------------------------------------------------
\* State
\* ------------------------------------------------------------------------

VARIABLES
    faceCellIDs,           \* face -> <<cell, cell or Masked>>
    cellFaceIDs,           \* cell -> its column of face IDs
    faceNormals,           \* _faceNormals: face -> vector
    faceAreas,             \* _faceAreas: face -> area
    faceToCellDistances,   \* _faceToCellDistances: face -> <<d, d or Masked>>
    cellDistances,         \* _cellDistances: face -> d
    exteriorFaces,         \* _exteriorFaces, as the set of faces flagged True
    interiorFaces,         \* _interiorFaces, as the set of faces flagged True
    scale,                 \* _scale['length']
    calls,                 \* operations applied so far
    lastOp,                \* the last operation
    lastResult,            \* how it ended
    lastFaces0,            \* the arguments of the last _connectFaces
    lastFaces1,            \*   that got past its assertions
    lastNonExterior,       \* the last _connectFaces named a face that was not exterior
    lastLenDiffer,         \* its two lists had different lengths
    lastNotOpposed,        \* some position of its lists was not an opposed pair
    lastMutated,           \* the last operation left an array different from before
    lastSteps,             \* the statements the last _connectFaces got to, in order
    exempt,                \* the faces of faces1 of every _connectFaces that got past
                           \*   its assertions, and the faces of faces0 of those whose
                           \*   lists were not well-formed
    cellFaceIDsAssigned,   \* a caller has assigned mesh.cellFaceIDs
    held,                  \* the objects a holder took from the mesh at construction,
                           \*   as that holder sees them now
    sameObject,            \* the attributes still bound to the object the holder has
    addSelf,               \* self of the concatenation
    addOther,              \* other of the concatenation
    addResolution,         \* the resolution it was called with
    added,                 \* what _getAddedMeshValues handed back
    hasSubscribedVariables,\* hasattr(self, 'subscribedVariables')
    subscribedVariables,   \* the list of references the mesh keeps
    alive,                 \* consumer -> it has not been reclaimed
    owners,                \* consumer -> the owners it has outside the mesh
    subscriptions,         \* every consumer handed to _subscribe, in order
    returned,              \* the list the last getSubscribedVariables returned, as
                           \*   its caller sees it now
    handedBack,            \* getSubscribedVariables has returned a list
    subOp,                 \* the last step on the subscriptions
    rawArrays,             \* the arrays handed to the constructor
    constructed,           \* how the constructor ended
    readDepth,             \* frames of the _cellDistanceNormals getter on the stack
    readResult             \* how the last read of _cellDistanceNormals ended

meshVars == <<faceCellIDs, cellFaceIDs, faceNormals, faceAreas, faceToCellDistances,
              cellDistances, exteriorFaces, interiorFaces, scale>>

histVars == <<calls, lastOp, lastResult, lastFaces0, lastFaces1,
              lastNonExterior, lastLenDiffer, lastNotOpposed, lastMutated,
              lastSteps, exempt, cellFaceIDsAssigned, held, sameObject>>

addVars == <<addSelf, addOther, addResolution, added>>

subVars == <<hasSubscribedVariables, subscribedVariables, alive, owners,
             subscriptions, returned, handedBack, subOp>>

newVars == <<rawArrays, constructed>>

readVars == <<readDepth, readResult>>

vars == <<meshVars, histVars, addVars, subVars, newVars, readVars>>

\* ------------------------------------------------------------------------
\* AbstractMesh._connectFaces
\* ------------------------------------------------------------------------

Neg(v) == [d \in DOMAIN v |-> 0 - v[d]]

\* _areaProjections: the face normal times the face area
AreaProjections(normals, areas) ==
    [f \in DOMAIN normals |-> [d \in DOMAIN normals[f] |-> normals[f][d] * areas[f]]]

\* Mutant: the assertion looks at faces0 only
ExteriorCheckFaces0Only(ext, faces0, faces1) ==
    Range(faces0) \subseteq ext

\* assert (faces | self.exteriorFaces == self.exteriorFaces).all()
ExteriorCheck(ext, faces0, faces1) ==
    (Range(faces0) \cup Range(faces1)) \subseteq ext

\* numerix.allclose(take(ap, faces0, axis=1), take(-ap, faces1, axis=1)):
\* the two operands are broadcast against each other and compared
AllClose(ap, faces0, faces1) ==
    \A i \in 1..Max(Len(faces0), Len(faces1)) :
        ap[Cyc(faces0, i)] = Neg(ap[Cyc(faces1, i)])

Row(tbl, k) == [f \in DOMAIN tbl |-> tbl[f][k]]

\* the exchange with the slots the other way round: faces0 keeps its own cell
\* in the first slot and gets the cell of faces1 in the second
NewFaceCellIDsOwnerFirst(fc, faces0, faces1) ==
    LET newFaces0 == Take(Row(fc, 1), faces0)
        newFaces1 == Take(Row(fc, 1), faces1)
        row1 == Put(Row(fc, 2), faces0, newFaces1)
        row0 == Put(Row(fc, 1), faces0, newFaces0)
    IN  [f \in DOMAIN fc |-> <<row0[f], row1[f]>>]

\* faceCellIDs[1].put(faces0, faceCellIDs[0].take(faces0));
\* faceCellIDs[0].put(faces0, faceCellIDs[0].take(faces1))
NewFaceCellIDs(fc, faces0, faces1) ==
    LET newFaces0 == Take(Row(fc, 1), faces0)
        newFaces1 == Take(Row(fc, 1), faces1)
        row1 == Put(Row(fc, 2), faces0, newFaces0)
        row0 == Put(Row(fc, 1), faces0, newFaces1)
    IN  [f \in DOMAIN fc |-> <<row0[f], row1[f]>>]

\* the same exchange on _faceToCellDistances
NewFaceToCellDistances(ftc, faces0, faces1) ==
    LET newDistances0 == Take(Row(ftc, 1), faces0)
        newDistances1 == Take(Row(ftc, 1), faces1)
        row1 == Put(Row(ftc, 2), faces0, newDistances0)
        row0 == Put(Row(ftc, 1), faces0, newDistances1)
    IN  [f \in DOMAIN ftc |-> <<row0[f], row1[f]>>]

\* twice the distance of faces0 to its own cell, in place of the sum
NewCellDistancesTwiceOwn(cd, newFtc, faces0) ==
    Put(cd, faces0, Take([f \in DOMAIN newFtc |-> 2 * newFtc[f][2]], faces0))

\* tempCellDist.put(faces0, (ftc[0] + ftc[1]).take(faces0)), on the new ftc
NewCellDistances(cd, newFtc, faces0) ==
    Put(cd, faces0, Take([f \in DOMAIN newFtc |-> newFtc[f][1] + newFtc[f][2]], faces0))

\* for each dim: put(faceNormals[dim], faces0, faceNormals[dim].take(faces1))
NewFaceNormals(fn, faces0, faces1) ==
    [f \in DOMAIN fn |->
        [d \in DOMAIN fn[f] |-> Put(Row(fn, d), faces0, Take(Row(fn, d), faces1))[f]]]

\* The loop over the rows of cellFaceIDs.take(faceCellIDs, axis=1) writes a
\* row of as many entries as the broadcast of faces0 against faces1 has into
\* a row that has one entry per face of faces1.
RowsFit(faces0, faces1) == Len(faces0) = Len(faces1) \/ Len(faces0) = 1

\* Mutant: the term ~facesInFaces1 * cellFaceIDs[i] is lost, so that an entry
\* that is not faces1[j] becomes 0
NewCellFaceIDsNoElse(cfi, newFc, faces0, faces1) ==
    LET cellIDs == Take(Row(newFc, 1), faces1)
        taken == Take(cfi, cellIDs)
        rewritten == [j \in 1..Len(faces1) |->
                        [i \in DOMAIN taken[j] |->
                            IF taken[j][i] = faces1[j]
                            THEN Cyc(faces0, j) ELSE 0]]
    IN  Put(cfi, cellIDs, rewritten)

\* Cells that are adjacent to faces1 are changed to point at faces0:
\* column j of the taken table is the column of the cell owning faces1[j];
\* where it holds faces1[j] it gets faces0[j]; the columns are put back.
NewCellFaceIDs(cfi, newFc, faces0, faces1) ==
    LET cellIDs == Take(Row(newFc, 1), faces1)
        taken == Take(cfi, cellIDs)
        rewritten == [j \in 1..Len(faces1) |->
                        [i \in DOMAIN taken[j] |->
                            IF taken[j][i] = faces1[j]
                            THEN Cyc(faces0, j) ELSE taken[j][i]]]
    IN  Put(cfi, cellIDs, rewritten)

\* _setTopology: the interior/exterior partition from the mask of faceCellIDs[1]
ExteriorOf(fc) == {f \in DOMAIN fc : fc[f][2] = Masked}

InteriorOf(fc) == {f \in DOMAIN fc : fc[f][2] # Masked}

\* _setScale: self._scale['length'] = scaleLength
SetScale(scaleLength) == scaleLength

\* the objects a holder may keep a reference to
Snapshot(m) ==
    [ faceCellIDs |-> m.faceCellIDs, cellFaceIDs |-> m.cellFaceIDs,
      faceNormals |-> m.faceNormals,
      faceToCellDistances |-> m.faceToCellDistances,
      cellDistances |-> m.cellDistances, scale |-> m.scale ]

CurrentMesh ==
    [ faceCellIDs |-> faceCellIDs, cellFaceIDs |-> cellFaceIDs,
      faceNormals |-> faceNormals, faceAreas |-> faceAreas,
      faceToCellDistances |-> faceToCellDistances,
      cellDistances |-> cellDistances, exteriorFaces |-> exteriorFaces,
      interiorFaces |-> interiorFaces, scale |-> scale ]

\* A call under way: the mesh as the statements so far left it, the objects
\* a holder took from the mesh earlier (h) as they are now, the attributes
\* that are still bound to the object the holder has (b), the exception
\* raised and the statements completed.
Running(m, h, b) ==
    [ mesh |-> m, held |-> h, bound |-> b, raised |-> "none", steps |-> <<>> ]

\* the statement without the copy: the attribute stays bound to its object
NoCopyAttribute(e, a) == e

\* self.X = self.X.copy(): the attribute is bound to a new object of the same
\* value, and no longer to the one the holder has
CopyAttribute(e, a) == [e EXCEPT !.bound = @ \ {a}]

\* a write into the object the attribute is bound to (put, item assignment):
\* the holder of that object sees what was written
WriteAttribute(e, a, v) ==
    [e EXCEPT !.mesh[a] = v,
              !.held[a] = IF a \in e.bound THEN v ELSE @]

\* self.X = v with v an object made by the statement
RebindAttribute(e, a, v) ==
    [e EXCEPT !.mesh[a] = v, !.bound = @ \ {a}]

\* the statements with the topology computed before the arrays are rewritten
ConnectProgramTopologyFirst ==
    << "_setTopology",
       "faceCellIDs.copy", "faceCellIDs.put",
       "_faceToCellDistances.copy", "_faceToCellDistances.put",
       "_cellDistances",
       "_faceNormals.copy", "_faceNormals.put",
       "cellFaceIDs.copy", "cellFaceIDs.put",
       "_handleFaceConnection", "scale" >>

\* the statements of _connectFaces that follow its assertions, in the order
\* in which they stand (lines 206, 207-212, 215, 216-221, 223-227, 230,
\* 231-234, 240, 241-250, 253, 256, 258)
ConnectProgram ==
    << "faceCellIDs.copy", "faceCellIDs.put",
       "_faceToCellDistances.copy", "_faceToCellDistances.put",
       "_cellDistances",
       "_faceNormals.copy", "_faceNormals.put",
       "cellFaceIDs.copy", "cellFaceIDs.put",
       "_setTopology", "_handleFaceConnection", "scale" >>

\* one of these statements, on the call as the statements before it left it.
\* Each reads the mesh as it is when the statement runs: the new cell
\* distances come from the distances just exchanged, the columns of
\* cellFaceIDs are taken at the cells faceCellIDs[0] now holds for faces1,
\* the partition comes from the faceCellIDs at hand.
ConnectStatement(e, faces0, faces1, statement) ==
    CASE statement = "faceCellIDs.copy" -> CopyAttribute(e, "faceCellIDs")
      [] statement = "faceCellIDs.put" ->
            WriteAttribute(e, "faceCellIDs",
                           NewFaceCellIDs(e.mesh.faceCellIDs, faces0, faces1))
      [] statement = "_faceToCellDistances.copy" ->
            CopyAttribute(e, "faceToCellDistances")
      [] statement = "_faceToCellDistances.put" ->
            WriteAttribute(e, "faceToCellDistances",
                           NewFaceToCellDistances(e.mesh.faceToCellDistances,
                                                  faces0, faces1))
      [] statement = "_cellDistances" ->
            \* tempCellDist = self._cellDistances.copy(); tempCellDist.put(...);
            \* self._cellDistances = tempCellDist
            RebindAttribute(e, "cellDistances",
                            NewCellDistances(e.mesh.cellDistances,
                                             e.mesh.faceToCellDistances, faces0))
      [] statement = "_faceNormals.copy" -> CopyAttribute(e, "faceNormals")
      [] statement = "_faceNormals.put" ->
            \* self._faceNormals[dim] = faceNormals, for each dim
            WriteAttribute(e, "faceNormals",
                           NewFaceNormals(e.mesh.faceNormals, faces0, faces1))
      [] statement = "cellFaceIDs.copy" -> CopyAttribute(e, "cellFaceIDs")
      [] statement = "cellFaceIDs.put" ->
            IF RowsFit(faces0, faces1)
            THEN WriteAttribute(e, "cellFaceIDs",
                                NewCellFaceIDs(e.mesh.cellFaceIDs, e.mesh.faceCellIDs,
                                               faces0, faces1))
            ELSE [e EXCEPT !.raised = "ValueError"]
      [] statement = "_setTopology" ->
            [e EXCEPT !.mesh.exteriorFaces = ExteriorOf(e.mesh.faceCellIDs),
                      !.mesh.interiorFaces = InteriorOf(e.mesh.faceCellIDs)]
      [] statement = "_handleFaceConnection" -> e
      [] statement = "scale" ->
            \* self.scale = self.scale['length']: _setScale writes the mapping
            WriteAttribute(e, "scale", SetScale(e.mesh.scale))

\* the statements one after the other, up to the one that raises; a
\* statement that completes is entered in steps
RECURSIVE ConnectStatements(_, _, _, _)
ConnectStatements(e, faces0, faces1, statements) ==
    IF statements = <<>> \/ e.raised # "none"
    THEN e
    ELSE LET after == ConnectStatement(e, faces0, faces1, Head(statements))
         IN  ConnectStatements(
                 IF after.raised # "none" THEN after
                 ELSE [after EXCEPT !.steps = Append(@, Head(statements))],
                 faces0, faces1, Tail(statements))

\* The whole of _connectFaces on mesh m, of which a holder has the objects h
\* and the attributes b are still bound to them: the mesh it leaves, what
\* the holder sees, how it ends and the statements it completed.
ConnectFaces(m, h, b, faces0, faces1) ==
    LET start == Running(m, h, b)
        failed(exception) == [start EXCEPT !.raised = exception]
        e == IF ~ExteriorCheck(m.exteriorFaces, faces0, faces1)
             THEN failed("AssertionError")
             ELSE IF ~Broadcastable(Len(faces0), Len(faces1))
             THEN failed("ValueError")
             ELSE IF ~AllClose(AreaProjections(m.faceNormals, m.faceAreas),
                               faces0, faces1)
             THEN failed("AssertionError")
             ELSE ConnectStatements(start, faces0, faces1, ConnectProgram)
    IN  [ mesh |-> e.mesh, held |-> e.held, bound |-> e.bound,
          result |-> IF e.raised = "none" THEN "ok" ELSE e.raised,
          steps |-> e.steps ]

\* exteriorFaces = property(..., _setExteriorFaces)
SetExteriorFacesTo(m, newExtFaces) == [m EXCEPT !.exteriorFaces = newExtFaces]

\* ------------------------------------------------------------------------
\* AbstractMesh._getAddedMeshValues(self, other, resolution)
\* ------------------------------------------------------------------------

\* resolution = 1e-2, the default; a resolution is kept as <<numerator,
\* denominator>>
DefaultResolution == <<1, 100>>

\* the elements of a set of integers in ascending order
Ascending(S) ==
    [i \in 1..Cardinality(S) |->
        CHOOSE x \in S : Cardinality({y \in S : y < x}) = i - 1]

\* the position of x in the sequence s
IndexOf(s, x) == CHOOSE i \in 1..Len(s) : s[i] = x

\* s[keep]: the entries of s at the positions in keep, in order
Compress(s, keep) == [k \in 1..Cardinality(keep) |-> s[Ascending(keep)[k]]]

\* argsort: the positions 1..n ordered by less[i, j] (key i sorts before key
\* j), equal keys in their original order (numpy's sort of fewer than 16
\* items is an insertion sort)
ArgSort(n, less) ==
    LET before(i) == {j \in 1..n : less[j, i] \/ (~less[i, j] /\ j < i)}
    IN  [r \in 1..n |-> CHOOSE i \in 1..n : Cardinality(before(i)) = r - 1]

\* numerix.sort of one column
SortColumn(col) ==
    LET ord == ArgSort(Len(col), [i \in 1..Len(col), j \in 1..Len(col) |->
                                     col[i] < col[j]])
    IN  [r \in 1..Len(col) |-> col[ord[r]]]

\* numerix.dot(tmp, tmp) of the difference of two points
SqDist(p, q) ==
    LET s[i \in 0..Len(p)] ==
            IF i = 0 THEN 0 ELSE s[i - 1] + (p[i] - q[i]) * (p[i] - q[i])
    IN  s[Len(p)]

\* every vertex of the mesh, exterior or not
AllVertices(m) == 0..(m.numberOfVertices - 1)

\* numerix.unique of the vertices of the exterior faces
Xvertices(m) == UNION {Range(m.faceVertexIDs[f]) : f \in m.exteriorFaces}

\* _cellToCellDistances.min(): the least entry of take(_cellDistances,
\* cellFaceIDs), twice the real distance as every distance array here
CellToCellDistancesMin(m) ==
    LET ds == {m.cellDistances[f] :
                  f \in UNION {Range(m.cellFaceIDs[c]) : c \in DOMAIN m.cellFaceIDs}}
    IN  CHOOSE d \in ds : \A e \in ds : d <= e

\* the nearest vertex with the highest ID where distances tie: what argmin
\* does not do
ClosestHighest(Xs, coords, p) ==
    CHOOSE a \in Xs : \A a2 \in Xs :
        \/ SqDist(coords[a], p) < SqDist(coords[a2], p)
        \/ SqDist(coords[a], p) = SqDist(coords[a2], p) /\ a >= a2

\* numerix.argmin(numerix.dot(tmp, tmp), axis=0): the nearest of self's
\* exterior vertices to the point p, the first (lowest) one where distances tie
Closest(Xs, coords, p) ==
    CHOOSE a \in Xs : \A a2 \in Xs :
        \/ SqDist(coords[a], p) < SqDist(coords[a2], p)
        \/ SqDist(coords[a], p) = SqDist(coords[a2], p) /\ a <= a2

\* distance < resolution * m, with d2 the squared distance and m2 = 2 m
Close(res, d2, m2) == 4 * res[2] * res[2] * d2 < res[1] * res[1] * m2 * m2

\* vertexCorrelates, as the sequence of its columns <<self vertex, other
\* vertex>>: one candidate per exterior vertex of other, in ascending order
\* of other's vertex ID
VertexCorrelates(selfc, other, res) ==
    LET sX == Xvertices(selfc)
        oX == Ascending(Xvertices(other))
        m2 == Min(CellToCellDistancesMin(selfc), CellToCellDistancesMin(other))
        closest == [i \in 1..Len(oX) |->
                       Closest(sX, selfc.vertexCoords, other.vertexCoords[oX[i]])]
        close == {i \in 1..Len(oX) :
                     Close(res, SqDist(selfc.vertexCoords[closest[i]],
                                       other.vertexCoords[oX[i]]), m2)}
    IN  Compress([i \in 1..Len(oX) |-> <<closest[i], oX[i]>>], close)

\* shape[0] of a table stored column by column
NumRows(tbl) == IF DOMAIN tbl = {} THEN 0 ELSE Len(tbl[0])

\* numerix.append of rows of -1 to cellFaceIDs, which MA.masked_values then
\* masks
PadRows(tbl, n) ==
    [f \in DOMAIN tbl |-> tbl[f] \o [i \in 1..(n - Len(tbl[f])) |-> Masked]]

\* numerix.in1d(faceVertexIDs.value, vertexCorrelates[k]) ... .all(axis=0):
\* the faces all of whose entries are among ids
MatchingFaces(fv, ids) ==
    {f \in DOMAIN fv : \A k \in 1..Len(fv[f]) : fv[f][k] \in ids}

\* map[x] as numpy indexes: -1 reads the last entry
AtIndex(map, x) == IF x = Masked THEN map[Cardinality(DOMAIN map) - 1] ELSE map[x]

\* a vertex_map that numbers the vertices to add from the highest ID down
VertexMapDescending(nSelf, nOther, vc) ==
    LET matched == {vc[k][2] : k \in 1..Len(vc)}
        verticesToAdd == Ascending((0..(nOther - 1)) \ matched)
    IN  [v \in 0..(nOther - 1) |->
            IF v \in matched
            THEN vc[PutLast([k \in 1..Len(vc) |-> vc[k][2]], v)][1]
            ELSE nSelf + Len(verticesToAdd) - IndexOf(verticesToAdd, v)]

\* vertex_map: other's vertex IDs to the new IDs
VertexMap(nSelf, nOther, vc) ==
    LET matched == {vc[k][2] : k \in 1..Len(vc)}
        verticesToAdd == Ascending((0..(nOther - 1)) \ matched)
    IN  [v \in 0..(nOther - 1) |->
            IF v \in matched
            THEN vc[PutLast([k \in 1..Len(vc) |-> vc[k][2]], v)][1]
            ELSE nSelf + IndexOf(verticesToAdd, v) - 1]

\* str of an integer, as character codes
RECURSIVE IntStr(_)
IntStr(n) ==
    IF n < 0 THEN <<45>> \o IntStr(0 - n)
    ELSE IF n < 10 THEN <<48 + n>>
    ELSE IntStr(n \div 10) \o <<48 + (n % 10)>>

\* str of a 1-D integer array: '[' items ']', the items right-aligned to the
\* widest and separated by one blank
ArrayStr(col) ==
    LET w == CHOOSE x \in {Len(IntStr(col[i])) : i \in 1..Len(col)} :
                 \A i \in 1..Len(col) : Len(IntStr(col[i])) <= x
        item(i) == [k \in 1..(w - Len(IntStr(col[i]))) |-> 32] \o IntStr(col[i])
        body[i \in 0..Len(col)] ==
            IF i = 0 THEN <<>>
            ELSE IF i = 1 THEN item(1)
            ELSE body[i - 1] \o <<32>> \o item(i)
    IN  <<91>> \o body[Len(col)] \o <<93>>

\* numerix.apply_along_axis(str, axis=0, arr=...): the result array takes the
\* string length of the first column's str, longer strings are cut to it
FaceHash(cols) ==
    LET w == Len(ArrayStr(cols[1]))
    IN  [i \in 1..Len(cols) |->
            LET s == ArrayStr(cols[i]) IN SubSeq(s, 1, Min(Len(s), w))]

\* order of two strings
LexLess(s, t) ==
    \E i \in 1..Len(t) :
        /\ \A j \in 1..(i - 1) : j <= Len(s) /\ s[j] = t[j]
        /\ (i > Len(s) \/ s[i] < t[i])

\* a[argsort(hash)]
SortedBy(a, hash) ==
    LET ord == ArgSort(Len(a), [i \in 1..Len(a), j \in 1..Len(a) |->
                                   LexLess(hash[i], hash[j])])
    IN  [r \in 1..Len(a) |-> a[ord[r]]]

\* faceCorrelates: the two rows self_matchingFaces and other_matchingFaces
FaceCorrelates(selfFv, otherFv, vc, vertex_map) ==
    LET sM == Ascending(MatchingFaces(selfFv, {vc[k][1] : k \in 1..Len(vc)}))
        oM == Ascending(MatchingFaces(otherFv, {vc[k][2] : k \in 1..Len(vc)}))
        sH == FaceHash([i \in 1..Len(sM) |-> SortColumn(selfFv[sM[i]])])
        oH == FaceHash([i \in 1..Len(oM) |->
                  SortColumn([k \in 1..Len(otherFv[oM[i]]) |->
                                 AtIndex(vertex_map, otherFv[oM[i]][k])])])
        sHs == SortedBy(sH, sH)
        oHs == SortedBy(oH, oH)
    IN  [ self  |-> Compress(SortedBy(sM, sH),
                             {i \in 1..Len(sM) : sHs[i] \in Range(oHs)}),
          other |-> Compress(SortedBy(oM, oH),
                             {i \in 1..Len(oM) : oHs[i] \in Range(sHs)}) ]

\* a face_map that numbers the faces to add from one past numberOfFaces
FaceMapOneOff(nSelf, nOther, fc) ==
    LET facesToAdd == Ascending((0..(nOther - 1)) \ Range(fc.other))
    IN  [f \in 0..(nOther - 1) |->
            IF f \in Range(fc.other)
            THEN Cyc(fc.self, PutLast(fc.other, f))
            ELSE nSelf + IndexOf(facesToAdd, f)]

\* face_map: other's face IDs to the new IDs
FaceMap(nSelf, nOther, fc) ==
    LET facesToAdd == Ascending((0..(nOther - 1)) \ Range(fc.other))
    IN  [f \in 0..(nOther - 1) |->
            IF f \in Range(fc.other)
            THEN Cyc(fc.self, PutLast(fc.other, f))
            ELSE nSelf + IndexOf(facesToAdd, f) - 1]

\* numerix.concatenate(..., axis=1) of two tables
Concatenate(a, b, nb) ==
    LET na == Cardinality(DOMAIN a)
    IN  [x \in 0..(na + nb - 1) |-> IF x < na THEN a[x] ELSE b[x - na + 1]]

\* a check that lets a mesh of lower dimension through
DimensionsNotLower(selfc, other) == selfc.dim <= other.dim

\* if self.dim != other.dim: raise MeshAdditionError
DimensionsMatch(selfc, other) == selfc.dim = other.dim

\* "warn if meshes don't touch, but allow it": both meshes have items and
\* no pair was correlated
NotAligned(nSelf, nOther, nCorrelates) ==
    nSelf > 0 /\ nOther > 0 /\ nCorrelates = 0

\* what a call that raised hands back: nothing
NoValues(status) ==
    [ status |-> status, warnings |-> {},
      vertexCoords |-> <<>>, faceVertexIDs |-> <<>>, cellFaceIDs |-> <<>>,
      vertexCorrelates |-> <<>>, faceCorrelates |-> [self |-> <<>>, other |-> <<>>],
      written |-> {} ]

\* the arrays of the two meshes that _getAddedMeshValues reads
InputArrays ==
    {"selfc.vertexCoords", "selfc.faceVertexIDs", "selfc.cellFaceIDs",
     "other.vertexCoords", "other.faceVertexIDs", "other.cellFaceIDs"}

\* name = <an array of a mesh>, or name = <the array an expression makes>
Bind(line, name, object) ==
    [ line |-> line, write |-> FALSE, name |-> name, object |-> object ]

\* name[...] = values: the object the name is bound to is written in place
WriteThrough(line, name) ==
    [ line |-> line, write |-> TRUE, name |-> name, object |-> "" ]

\* The statements of _getAddedMeshValues that bind a name to an array of a
\* mesh or write through a name, and the bindings of the names concerned,
\* for the difference in height of the two faceVertexIDs and of the two
\* cellFaceIDs.  numerix.append, MA.masked_values, numerix.empty and an
\* array indexed by an array each make a new array.
AddedProgram(diffFv, diffCf) ==
    << Bind(330, "self_faceVertexIDs", "selfc.faceVertexIDs"),
       Bind(331, "other_faceVertexIDs", "other.faceVertexIDs") >>
    \o (IF diffFv > 0
        THEN << Bind(335, "other_faceVertexIDs", "numerix.append, line 335"),
                Bind(339, "other_faceVertexIDs", "MA.masked_values, line 339") >>
        ELSE IF diffFv < 0
        THEN << Bind(341, "self_faceVertexIDs", "numerix.append, line 341"),
                Bind(345, "self_faceVertexIDs", "MA.masked_values, line 345") >>
        ELSE <<>>)
    \o << Bind(357, "vertex_map", "numerix.empty, line 357"),
          WriteThrough(359, "vertex_map"),
          WriteThrough(360, "vertex_map"),
          Bind(407, "face_map", "numerix.empty, line 407"),
          WriteThrough(409, "face_map"),
          WriteThrough(410, "face_map"),
          Bind(412, "other_faceVertexIDs", "vertex_map[...], line 412"),
          Bind(415, "self_cellFaceIDs", "selfc.cellFaceIDs"),
          Bind(416, "other_cellFaceIDs", "face_map[...], line 416") >>
    \o (IF diffCf > 0
        THEN << Bind(419, "other_cellFaceIDs", "numerix.append, line 419"),
                Bind(423, "other_cellFaceIDs", "MA.masked_values, line 423") >>
        ELSE IF diffCf < 0
        THEN << Bind(425, "self_cellFaceIDs", "numerix.append, line 425"),
                Bind(429, "self_cellFaceIDs", "MA.masked_values, line 429") >>
        ELSE <<>>)

\* the line at which a call that ends with this status leaves the function
LeftAt(status, diffFv, objectArrays) ==
    CASE status = "MeshAdditionError" -> 285
      [] status = "AttributeError" -> IF diffFv < 0 THEN 348 ELSE 352
      [] status = "ValueError" -> IF objectArrays THEN 410 ELSE 395
      [] OTHER -> 432

\* the objects written in place by the statements before line last, the
\* names bound as in binding
RECURSIVE ObjectsWritten(_, _, _)
ObjectsWritten(statements, binding, last) ==
    IF statements = <<>> \/ Head(statements).line >= last THEN {}
    ELSE LET st == Head(statements)
         IN  IF st.write
             THEN {binding[st.name]}
                  \cup ObjectsWritten(Tail(statements), binding, last)
             ELSE ObjectsWritten(Tail(statements),
                                 [n \in DOMAIN binding \cup {st.name} |->
                                     IF n = st.name THEN st.object ELSE binding[n]],
                                 last)

\* The dict _getAddedMeshValues returns (vertexCoords, faceVertexIDs,
\* cellFaceIDs), with how the call ended, the warnings it gave and its local
\* arrays vertexCorrelates and faceCorrelates.  The meshes are those whose
\* faceVertexIDs have no masked entry on an exterior face.
\* Of two faceVertexIDs of different heights the lower is padded into a
\* numpy.ma.MaskedArray, which has no attribute "value": the read of .value
\* that follows raises AttributeError, after the vertices were correlated and
\* before any face is.
\* numerix.array((self_matchingFaces, other_matchingFaces)) of two rows of
\* different lengths depends on the numpy at hand: with objectArrays it is
\* an array of the two rows (and the assignment to face_map broadcasts a
\* single self face or raises), without it the call raises ValueError.
\* written is the set of objects the call has written in place.
GetAddedMeshValues(selfc, other, res, objectArrays) ==
    IF ~DimensionsMatch(selfc, other)
    THEN NoValues("MeshAdditionError")
    ELSE
      LET vc == VertexCorrelates(selfc, other, res)
          diffFv == NumRows(selfc.faceVertexIDs) - NumRows(other.faceVertexIDs)
          diffCf == NumRows(selfc.cellFaceIDs) - NumRows(other.cellFaceIDs)
          writtenWhen(status) ==
              ObjectsWritten(AddedProgram(diffFv, diffCf), << >>,
                             LeftAt(status, diffFv, objectArrays))
          selfFv == selfc.faceVertexIDs
          otherFv == other.faceVertexIDs
          vertex_map == VertexMap(selfc.numberOfVertices, other.numberOfVertices, vc)
          verticesToAdd == Ascending((0..(other.numberOfVertices - 1))
                                        \ {vc[k][2] : k \in 1..Len(vc)})
          fc == FaceCorrelates(selfFv, otherFv, vc, vertex_map)
          face_map == FaceMap(selfc.numberOfFaces, other.numberOfFaces, fc)
          facesToAdd == Ascending((0..(other.numberOfFaces - 1)) \ Range(fc.other))
          newFv == [i \in 1..Len(facesToAdd) |->
                      [k \in 1..Len(other.faceVertexIDs[facesToAdd[i]]) |->
                          AtIndex(vertex_map, other.faceVertexIDs[facesToAdd[i]][k])]]
          otherCf == [i \in 1..other.numberOfCells |->
                        [k \in 1..Len(other.cellFaceIDs[i - 1]) |->
                            AtIndex(face_map, other.cellFaceIDs[i - 1][k])]]
          cfRows == Max(NumRows(selfc.cellFaceIDs), NumRows(other.cellFaceIDs))
          vertexWarnings ==
              IF NotAligned(selfc.numberOfVertices, other.numberOfVertices, Len(vc))
              THEN {"Vertices are not aligned"} ELSE {}
          warnings ==
              vertexWarnings
              \cup
              (IF NotAligned(selfc.numberOfFaces, other.numberOfFaces, Len(fc.other))
               THEN {"Faces are not aligned"} ELSE {})
          raised == [NoValues("ValueError") EXCEPT !.warnings = warnings,
                                                   !.vertexCorrelates = vc,
                                                   !.faceCorrelates = fc,
                                                   !.written = writtenWhen("ValueError")]
      IN  IF NumRows(selfFv) # NumRows(otherFv)
          THEN [NoValues("AttributeError") EXCEPT !.warnings = vertexWarnings,
                                                  !.vertexCorrelates = vc,
                                                  !.written = writtenWhen("AttributeError")]
          ELSE IF Len(fc.self) # Len(fc.other) /\ ~(objectArrays /\ Len(fc.self) = 1)
          THEN raised
          ELSE
            [ status |-> "ok",
              warnings |-> warnings,
              vertexCoords |->
                  Concatenate(selfc.vertexCoords,
                              Take(other.vertexCoords, verticesToAdd),
                              Len(verticesToAdd)),
              faceVertexIDs |-> Concatenate(selfFv, newFv, Len(facesToAdd)),
              cellFaceIDs |->
                  Concatenate(PadRows(selfc.cellFaceIDs, cfRows),
                              PadRows(otherCf, cfRows),
                              other.numberOfCells),
              vertexCorrelates |-> vc,
              faceCorrelates |-> fc,
              written |-> writtenWhen("ok") ]

\* isinstance(other, AbstractMesh): a mesh has a dimension, a vector to
\* translate by is kept as [vector |-> <<x, y>>]
IsAbstractMesh(other) == "dim" \in DOMAIN other

\* self._translate(vector) as the class of the mesh has it (the body in
\* AbstractMesh is the abstract one, like that of _concatenableMesh): a new
\* mesh whose vertex coordinates are those of self shifted by the vector, a
\* component per dimension, and whose tables are those of self; self is as
\* it was
Translate(selfc, vector) ==
    [ NoValues("ok") EXCEPT
        !.vertexCoords = [v \in DOMAIN selfc.vertexCoords |->
                            [k \in 1..selfc.dim |->
                                selfc.vertexCoords[v][k] + vector.vector[k]]],
        !.faceVertexIDs = selfc.faceVertexIDs,
        !.cellFaceIDs = selfc.cellFaceIDs ]

\* AbstractMesh.__add__(self, other): for a mesh other the arguments the
\* concatenated mesh is built from, for anything else the translation
Add(selfc, other, objectArrays) ==
    IF IsAbstractMesh(other)
    THEN GetAddedMeshValues(selfc, other, DefaultResolution, objectArrays)
    ELSE Translate(selfc, other)

\* ------------------------------------------------------------------------
\* Specification of the face connector
\* ------------------------------------------------------------------------

Install(m) ==
    /\ faceCellIDs' = m.faceCellIDs
    /\ cellFaceIDs' = m.cellFaceIDs
    /\ faceNormals' = m.faceNormals
    /\ faceAreas' = m.faceAreas
    /\ faceToCellDistances' = m.faceToCellDistances
    /\ cellDistances' = m.cellDistances
    /\ exteriorFaces' = m.exteriorFaces
    /\ interiorFaces' = m.interiorFaces
    /\ scale' = m.scale

Faces == DOMAIN faceCellIDs

Cells == DOMAIN cellFaceIDs

\* ------------------------------------------------------------------------
\* Subscriptions
\* ------------------------------------------------------------------------

Consumers == 1..2

\* a reference that owns its target, in place of the weak one
StrongRef(var) == [weak |-> FALSE, target |-> var]

\* weakref.ref(var)
Ref(var) == [weak |-> TRUE, target |-> var]

\* sub(): the target, or None (0) once a weakly referenced target is gone
Deref(sub, al) == IF sub.weak /\ ~al[sub.target] THEN 0 ELSE sub.target

\* the list handed back as it is, dead references included
EverySubscription(subs, al) == subs

\* [sub for sub in self.subscribedVariables if sub() is not None]
LiveSubscriptions(subs, al) == Compress(subs, {i \in 1..Len(subs) : Deref(subs[i], al) # 0})

\* the list holds a reference that owns consumer c
MeshOwns(subs, c) == \E i \in 1..Len(subs) : ~subs[i].weak /\ subs[i].target = c

\* the state of the subscriptions after construction: no attribute yet
Unsubscribed ==
    /\ hasSubscribedVariables = FALSE
    /\ subscribedVariables = <<>>
    /\ alive = [c \in Consumers |-> TRUE]
    /\ owners = [c \in Consumers |-> 1]
    /\ subscriptions = <<>>
    /\ returned = <<>>
    /\ handedBack = FALSE
    /\ subOp = "init"

\* ------------------------------------------------------------------------
\* The _cellDistanceNormals property
\* ------------------------------------------------------------------------

\* the attributes the getter reads, in the order in which it evaluates
\* self._cellDistanceNormals / self._cellDistances
CellDistanceNormalsOperands == <<"_cellDistanceNormals", "_cellDistances">>

\* reading this attribute of the mesh runs the getter of the property
IsCellDistanceNormalsProperty(attribute) == attribute = "_cellDistanceNormals"

\* no read under way
NotReading ==
    /\ readDepth = 0
    /\ readResult = "none"

\* ------------------------------------------------------------------------
\* Construction from raw arrays
\* ------------------------------------------------------------------------

\* AbstractMesh.__init__(vertexCoords, faceVertexIDs, cellFaceIDs): pass
NewAbstractMesh(rawVertexCoords, rawFaceVertexIDs, rawCellFaceIDs) == "constructed"

\* no constructor call under way
NoRawArrays ==
    /\ rawArrays = [vertexCoords |-> <<>>, faceVertexIDs |-> <<>>, cellFaceIDs |-> <<>>]
    /\ constructed = "not called"

\* The face lists a caller hands in: one or two faces (a side of the grid
\* has two), in any order, repeats allowed.
FaceLists == SeqsUpTo(Faces, 2)

\* The state after construction of mesh g
FreshMesh(g) ==
    /\ faceCellIDs = g.faceCellIDs
    /\ cellFaceIDs = g.cellFaceIDs
    /\ faceNormals = g.faceNormals
    /\ faceAreas = g.faceAreas
    /\ faceToCellDistances = g.faceToCellDistances
    /\ cellDistances = g.cellDistances
    /\ exteriorFaces = g.exteriorFaces
    /\ interiorFaces = g.interiorFaces
    /\ scale = 1
    /\ calls = 0
    /\ lastOp = "init"
    /\ lastResult = "none"
    /\ lastFaces0 = <<>>
    /\ lastFaces1 = <<>>
    /\ lastNonExterior = FALSE
    /\ lastLenDiffer = FALSE
    /\ lastNotOpposed = FALSE
    /\ lastMutated = FALSE
    /\ lastSteps = <<>>
    /\ exempt = {}
    /\ cellFaceIDsAssigned = FALSE
    /\ held = [ faceCellIDs |-> g.faceCellIDs, cellFaceIDs |-> g.cellFaceIDs,
                faceNormals |-> g.faceNormals,
                faceToCellDistances |-> g.faceToCellDistances,
                cellDistances |-> g.cellDistances, scale |-> 1 ]
    /\ sameObject = {"faceCellIDs", "cellFaceIDs", "faceNormals",
                     "faceToCellDistances", "cellDistances", "scale"}
    /\ Unsubscribed
    /\ NotReading

\* no concatenation under way
Fresh(g) ==
    /\ FreshMesh(g)
    /\ addSelf = g
    /\ addOther = g
    /\ addResolution = DefaultResolution
    /\ added = NoValues("not called")
    /\ NoRawArrays

Init == Fresh(BaseMesh) \/ Fresh(StretchedMesh)

\* What the caller handed in, judged on the mesh as it was before the call
NamesNonExterior(faces0, faces1) ==
    \E f \in Range(faces0) \cup Range(faces1) : f \notin exteriorFaces

\* some pair of the broadcast lists is not a pair of opposed faces: the
\* comparison of the second assertion, the shorter list repeated
NotOpposed(faces0, faces1) ==
    LET ap == AreaProjections(faceNormals, faceAreas)
    IN  \E i \in 1..Max(Len(faces0), Len(faces1)) :
            ap[Cyc(faces0, i)] # Neg(ap[Cyc(faces1, i)])

\* The lists are what the docstring has in mind: as many faces in one as in
\* the other, no face named twice, every face with one adjacent cell and its
\* equivalence not ended by an earlier connection, the faces of faces1 on
\* different cells
WellFormedLists(faces0, faces1) ==
    LET named == Range(faces0) \cup Range(faces1)
    IN  /\ Len(faces0) = Len(faces1)
        /\ Cardinality(named) = Len(faces0) + Len(faces1)
        /\ \A f \in named : faceCellIDs[f][2] = Masked /\ f \notin exempt
        /\ \A i, j \in 1..Len(faces1) :
              faceCellIDs[faces1[i]][1] = faceCellIDs[faces1[j]][1] => i = j

\* both assertions hold; neither compares the lengths of the two lists
PassedAssertions(faces0, faces1) ==
    /\ ~NamesNonExterior(faces0, faces1)
    /\ Broadcastable(Len(faces0), Len(faces1))
    /\ ~NotOpposed(faces0, faces1)

\* self of the concatenation is the mesh the operations are applied to
SelfIsMesh ==
    /\ "faceCellIDs" \in DOMAIN addSelf
    /\ addSelf.faceCellIDs = faceCellIDs
    /\ addSelf.cellFaceIDs = cellFaceIDs
    /\ addSelf.faceNormals = faceNormals
    /\ addSelf.faceAreas = faceAreas
    /\ addSelf.faceToCellDistances = faceToCellDistances
    /\ addSelf.cellDistances = cellDistances
    /\ addSelf.exteriorFaces = exteriorFaces
    /\ addSelf.interiorFaces = interiorFaces

\* ... and then it has the arrays the operation leaves: a concatenation
\* reads the arrays the mesh has at the call
SelfFollowsMesh ==
    /\ addSelf' = IF SelfIsMesh
                  THEN [addSelf EXCEPT !.faceCellIDs = faceCellIDs',
                                       !.cellFaceIDs = cellFaceIDs',
                                       !.faceNormals = faceNormals',
                                       !.faceAreas = faceAreas',
                                       !.faceToCellDistances = faceToCellDistances',
                                       !.cellDistances = cellDistances',
                                       !.exteriorFaces = exteriorFaces',
                                       !.interiorFaces = interiorFaces']
                  ELSE addSelf
    /\ UNCHANGED <<addOther, addResolution, added>>

ConnectStep ==
    /\ \E faces0 \in FaceLists, faces1 \in FaceLists :
        LET r == ConnectFaces(CurrentMesh, held, sameObject, faces0, faces1)
            mutated == r.mesh # CurrentMesh
            entered == mutated \/ r.result = "ok"
        IN  /\ Install(r.mesh)
            /\ lastOp' = "connect"
            /\ lastResult' = r.result
            /\ lastMutated' = mutated
            /\ lastSteps' = r.steps
            /\ lastFaces0' = IF entered THEN faces0 ELSE <<>>
            /\ lastFaces1' = IF entered THEN faces1 ELSE <<>>
            /\ lastNonExterior' = NamesNonExterior(faces0, faces1)
            /\ lastLenDiffer' = (Len(faces0) # Len(faces1))
            /\ lastNotOpposed' = NotOpposed(faces0, faces1)
            /\ exempt' = IF ~entered THEN exempt
                         ELSE IF WellFormedLists(faces0, faces1)
                         THEN exempt \cup Range(faces1)
                         ELSE exempt \cup Range(faces0) \cup Range(faces1)
            /\ cellFaceIDsAssigned' = cellFaceIDsAssigned
            /\ held' = r.held
            /\ sameObject' = r.bound
    /\ calls' = calls + 1
    /\ SelfFollowsMesh
    /\ UNCHANGED <<subVars, newVars, readVars>>

ConnectFacesCall == calls < MaxCalls /\ ConnectStep

Flips(a, b) == Cardinality((a \ b) \cup (b \ a))

SetExteriorFacesCall ==
    /\ calls < MaxCalls
    /\ \E newExtFaces \in {x \in SUBSET Faces : Flips(x, exteriorFaces) <= MaxFlip} :
        /\ Install(SetExteriorFacesTo(CurrentMesh, newExtFaces))
        /\ lastMutated' = (newExtFaces # exteriorFaces)
    /\ calls' = calls + 1
    /\ lastOp' = "setExteriorFaces"
    /\ lastSteps' = <<>>
    /\ lastResult' = "ok"
    /\ lastFaces0' = <<>>
    /\ lastFaces1' = <<>>
    /\ lastNonExterior' = FALSE
    /\ lastLenDiffer' = FALSE
    /\ lastNotOpposed' = FALSE
    /\ SelfFollowsMesh
    /\ UNCHANGED <<exempt, cellFaceIDsAssigned, held, sameObject,
                   subVars, newVars, readVars>>

\* the lengths a caller sets the scale to
ScaleLengths == {-1, 0, 1, 2}

\* mesh.scale = scaleLength
SetScaleCall ==
    /\ calls < MaxCalls
    /\ \E scaleLength \in ScaleLengths :
        LET e == WriteAttribute(Running(CurrentMesh, held, sameObject),
                                "scale", SetScale(scaleLength))
        IN  /\ Install(e.mesh)
            /\ held' = e.held
            /\ sameObject' = e.bound
            /\ lastMutated' = (e.mesh.scale # scale)
    /\ calls' = calls + 1
    /\ lastOp' = "setScale"
    /\ lastSteps' = <<>>
    /\ lastResult' = "ok"
    /\ lastFaces0' = <<>>
    /\ lastFaces1' = <<>>
    /\ lastNonExterior' = FALSE
    /\ lastLenDiffer' = FALSE
    /\ lastNotOpposed' = FALSE
    /\ SelfFollowsMesh
    /\ UNCHANGED <<exempt, cellFaceIDsAssigned, subVars, newVars, readVars>>

\* cellFaceIDs = property(_getCellFaceIDsInternal, _setCellFaceIDsInternal):
\* self._cellFaceIDs = newVal binds the attribute to the object it is given,
\* which may be the object it is bound to already, the object the holder
\* has, or another
SetCellFaceIDsInternal(e, newVal) ==
    [e EXCEPT !.mesh.cellFaceIDs = newVal.value,
              !.bound = CASE newVal.object = "bound" -> @
                          [] newVal.object = "held" -> @ \cup {"cellFaceIDs"}
                          [] OTHER -> @ \ {"cellFaceIDs"}]

\* the tables a caller assigns: the object the attribute is bound to, the
\* object the holder has, and new objects: a table equal to the one at
\* hand, and the table with the columns of the cells in the opposite order
CellFaceIDsValues ==
    LET last == CHOOSE c \in Cells : \A d \in Cells : d <= c
    IN  { [object |-> "bound", value |-> cellFaceIDs],
          [object |-> "held", value |-> held.cellFaceIDs],
          [object |-> "new", value |-> cellFaceIDs],
          [object |-> "new", value |-> [c \in Cells |-> cellFaceIDs[last - c]]] }

\* mesh.cellFaceIDs = newVal: the attribute is bound to the table given; the
\* table it was bound to, and whoever holds it, is as it was
SetCellFaceIDsCall ==
    /\ calls < MaxCalls
    /\ \E newVal \in CellFaceIDsValues :
        LET e == SetCellFaceIDsInternal(Running(CurrentMesh, held, sameObject), newVal)
        IN  /\ Install(e.mesh)
            /\ held' = e.held
            /\ sameObject' = e.bound
            /\ lastMutated' = (newVal.value # cellFaceIDs)
    /\ calls' = calls + 1
    /\ lastOp' = "setCellFaceIDs"
    /\ lastSteps' = <<>>
    /\ lastResult' = "ok"
    /\ lastFaces0' = <<>>
    /\ lastFaces1' = <<>>
    /\ lastNonExterior' = FALSE
    /\ lastLenDiffer' = FALSE
    /\ lastNotOpposed' = FALSE
    /\ cellFaceIDsAssigned' = TRUE
    /\ SelfFollowsMesh
    /\ UNCHANGED <<exempt, subVars, newVars, readVars>>

Next ==
    \/ SetExteriorFacesCall
    \/ SetScaleCall
    \/ SetCellFaceIDsCall
    \/ ConnectFacesCall

Spec == Init /\ [][Next]_vars

\* The doctest mesh under one call of _connectFaces
InitDoc == Fresh(DocMesh)

DocConnectCall == calls = 0 /\ ConnectStep

NextDoc == DocConnectCall

SpecDoc == InitDoc /\ [][NextDoc]_vars

\* One connection, after the caller has or has not set the scale
InitScaled == Fresh(BaseMesh)

ScaleFirstCall == calls = 0 /\ SetScaleCall

ScaledConnectCall == lastOp # "connect" /\ ConnectStep

NextScaled == ScaleFirstCall \/ ScaledConnectCall

SpecScaled == InitScaled /\ [][NextScaled]_vars

\* ------------------------------------------------------------------------
\* Specification of the concatenation
\* ------------------------------------------------------------------------

\* how far other is translated along x, in cell widths
MaxShift == 2

\* cells per axis of the grids
GridShapes == {<<1, 1>>, <<2, 1>>, <<2, 2>>}

\* Grid2D and Grid1D meshes of spacing 1 or 2, translated by ox
MeshesAt(ox) ==
    {Grid2D(n[1], n[2], 1, 1, ox, 0) : n \in GridShapes}
    \cup {Grid2D(1, 1, 2, 2, ox, 0)}
    \cup {Grid1D(nx, dx, ox) : nx \in 1..2, dx \in 1..2}

\* Grid2D(nx = 2, ny = 3): the smallest of the grids with vertex IDs of two
\* digits on its boundary
TallMesh == Grid2D(2, 3, 1, 1, 0, 0)

\* Grid2D(nx = 2, ny = 2, dx = 2., dy = 1.) + ((-2,), (2,)): its lower right
\* cell shares its right face with the upper right cell of TallMesh
WideMesh == Grid2D(2, 2, 2, 1, -2, 2)

SelfMeshes == MeshesAt(0) \cup {TallMesh}

OtherMeshes == UNION {MeshesAt(ox) : ox \in 0..MaxShift} \cup {WideMesh}

\* the default, then resolutions that put the threshold at one and at two
\* cell widths of a unit grid
Resolutions == {DefaultResolution, <<2, 1>>, <<4, 1>>}

InitAdd ==
    /\ FreshMesh(BaseMesh)
    /\ addSelf \in SelfMeshes
    /\ addOther \in OtherMeshes
    /\ addResolution = DefaultResolution
    /\ added = NoValues("not called")
    /\ NoRawArrays

GetAddedMeshValuesCall ==
    /\ added.status = "not called"
    /\ \E res \in Resolutions, objectArrays \in BOOLEAN :
        /\ addResolution' = res
        /\ added' = GetAddedMeshValues(addSelf, addOther, res, objectArrays)
    /\ UNCHANGED <<addSelf, addOther, meshVars, histVars, subVars, newVars, readVars>>

AddCall ==
    /\ added.status = "not called"
    /\ \E objectArrays \in BOOLEAN :
        added' = Add(addSelf, addOther, objectArrays)
    /\ UNCHANGED <<addSelf, addOther, addResolution, meshVars, histVars, subVars, newVars, readVars>>

NextAdd == GetAddedMeshValuesCall \/ AddCall

SpecAdd == InitAdd /\ [][NextAdd]_vars

\* ------------------------------------------------------------------------
\* Specification of a holder of the arrays of a mesh that is rescaled,
\* connected and concatenated
\* ------------------------------------------------------------------------

\* pairs of meshes whose tables have the same and different heights; the
\* first is the pair of the grid that is rescaled and connected and a copy of
\* the grid as constructed to its right
HeldPairs ==
    { <<BaseMesh, Grid2D(2, 1, 1, 1, 2, 0)>>,
      <<Square(0), Triangle(1)>>,
      <<Triangle(0), Square(1)>>,
      <<Cube(0), Tetrahedron(1)>> }

InitHeld ==
    /\ FreshMesh(BaseMesh)
    /\ \E pair \in HeldPairs : addSelf = pair[1] /\ addOther = pair[2]
    /\ addResolution = DefaultResolution
    /\ added = NoValues("not called")
    /\ NoRawArrays

\* the mesh is rescaled and connected where it is the first mesh of the pair
HeldScaleCall == calls = 0 /\ SelfIsMesh /\ SetScaleCall

\* a caller whose connection raised does not go on to connect
HeldConnectCall ==
    /\ calls < MaxCalls
    /\ SelfIsMesh
    /\ lastOp = "connect" => lastResult = "ok"
    /\ ConnectStep

\* the concatenation, of the mesh as the operations on it have left it
HeldAddCall == (SelfIsMesh => calls = MaxCalls) /\ AddCall

NextHeld == HeldScaleCall \/ HeldConnectCall \/ HeldAddCall

SpecHeld == InitHeld /\ [][NextHeld]_vars

\* ------------------------------------------------------------------------
\* Specification of the concatenation of meshes with tables of different
\* heights
\* ------------------------------------------------------------------------

\* cells of three, four and six faces, with faces of two, three and four
\* vertices
MixedMeshesAt(ox) ==
    {Triangle(ox), Square(ox), Tetrahedron(ox), Cube(ox), Grid1D(1, 1, ox)}

\* the vectors a mesh of dimension dim is added to, to translate it: ox
\* along x, twice that along y, ...
Vectors(dim) == {[vector |-> [k \in 1..dim |-> k * ox]] : ox \in 1..MaxShift}

InitMixed ==
    /\ FreshMesh(BaseMesh)
    /\ addSelf \in MixedMeshesAt(0)
    /\ addOther \in UNION {MixedMeshesAt(ox) : ox \in 0..MaxShift}
                        \cup Vectors(addSelf.dim)
    /\ addResolution = DefaultResolution
    /\ added = NoValues("not called")
    /\ NoRawArrays

NextMixed == AddCall

SpecMixed == InitMixed /\ [][NextMixed]_vars

\* ------------------------------------------------------------------------
\* Specification of a read of _cellDistanceNormals
\* ------------------------------------------------------------------------

InitRead == Init

\* the mesh is connected, or not, before the property is read
ConnectBeforeReadCall == calls = 0 /\ NotReading /\ ConnectStep

\* mesh._cellDistanceNormals: the getter is entered
ReadCellDistanceNormals ==
    /\ NotReading
    /\ readDepth' = 1
    /\ readResult' = "reading"
    /\ UNCHANGED <<meshVars, histVars, addVars, subVars, newVars>>

\* the getter evaluates its first operand, which is the property: the getter
\* is entered again, on a new frame
GetterEvaluatesOperand ==
    /\ readDepth > 0
    /\ readDepth < RecursionLimit
    /\ IsCellDistanceNormalsProperty(Head(CellDistanceNormalsOperands))
    /\ readDepth' = readDepth + 1
    /\ UNCHANGED <<readResult, meshVars, histVars, addVars, subVars, newVars>>

\* no frame is left: the interpreter raises RecursionError, which unwinds
\* every frame of the getter
GetterExceedsRecursionLimit ==
    /\ readDepth = RecursionLimit
    /\ IsCellDistanceNormalsProperty(Head(CellDistanceNormalsOperands))
    /\ readDepth' = 0
    /\ readResult' = "RecursionError"
    /\ UNCHANGED <<meshVars, histVars, addVars, subVars, newVars>>

NextRead ==
    \/ ConnectBeforeReadCall
    \/ ReadCellDistanceNormals
    \/ GetterEvaluatesOperand
    \/ GetterExceedsRecursionLimit

\* the interpreter goes on with a getter it has entered
SpecRead ==
    /\ InitRead
    /\ [][NextRead]_vars
    /\ WF_vars(GetterEvaluatesOperand)
    /\ WF_vars(GetterExceedsRecursionLimit)

InitSub == Fresh(BaseMesh)

\* mesh._subscribe(var), by a caller that holds var.  The list is appended
\* to in place, and it is the list the last getSubscribedVariables returned:
\* the caller of that sees the new entry
SubscribeCall ==
    /\ Len(subscriptions) < MaxSubscriptions
    /\ \E var \in Consumers :
        /\ alive[var]
        /\ hasSubscribedVariables' = TRUE
        /\ subscribedVariables' = Append(subscribedVariables, Ref(var))
        /\ subscriptions' = Append(subscriptions, var)
    /\ returned' = IF handedBack THEN subscribedVariables' ELSE returned
    /\ subOp' = "subscribe"
    /\ UNCHANGED <<alive, owners, handedBack, meshVars, histVars, addVars, newVars, readVars>>

\* one more owner takes a reference to a consumer
AcquireStep ==
    /\ \E c \in Consumers :
        /\ alive[c]
        /\ owners[c] < MaxOwners
        /\ owners' = [owners EXCEPT ![c] = @ + 1]
    /\ subOp' = "acquire"
    /\ UNCHANGED <<hasSubscribedVariables, subscribedVariables, alive, subscriptions,
                   returned, handedBack, meshVars, histVars, addVars, newVars, readVars>>

\* an owner drops its reference; the consumer is reclaimed when nothing
\* that owns it is left
ReleaseStep ==
    /\ \E c \in Consumers :
        /\ owners[c] > 0
        /\ owners' = [owners EXCEPT ![c] = @ - 1]
        /\ alive' = [alive EXCEPT ![c] = owners[c] > 1 \/ MeshOwns(subscribedVariables, c)]
    /\ subOp' = "release"
    /\ UNCHANGED <<hasSubscribedVariables, subscribedVariables, subscriptions,
                   returned, handedBack, meshVars, histVars, addVars, newVars, readVars>>

\* mesh.getSubscribedVariables(): the attribute is bound to a new list, and
\* that list is returned
GetSubscribedVariablesCall ==
    /\ hasSubscribedVariables' = TRUE
    /\ subscribedVariables' = LiveSubscriptions(subscribedVariables, alive)
    /\ returned' = subscribedVariables'
    /\ handedBack' = TRUE
    /\ subOp' = "get"
    /\ UNCHANGED <<alive, owners, subscriptions, meshVars, histVars, addVars, newVars, readVars>>

NextSub == SubscribeCall \/ AcquireStep \/ ReleaseStep \/ GetSubscribedVariablesCall

SpecSub == InitSub /\ [][NextSub]_vars

\* ------------------------------------------------------------------------
\* Specification of the construction
\* ------------------------------------------------------------------------

\* IDs a caller may write into the raw arrays
RawIDs == -1..2

\* one or two vertices on a line, two faces of one vertex each, one cell of
\* two faces
InitNew ==
    /\ FreshMesh(BaseMesh)
    /\ addSelf = BaseMesh
    /\ addOther = BaseMesh
    /\ addResolution = DefaultResolution
    /\ added = NoValues("not called")
    /\ \E nV \in 1..2, fv \in [1..2 -> RawIDs], cf \in [1..2 -> RawIDs] :
        rawArrays = [vertexCoords |-> [v \in 1..nV |-> v - 1],
                     faceVertexIDs |-> fv, cellFaceIDs |-> cf]
    /\ constructed = "not called"

NewCall ==
    /\ constructed = "not called"
    /\ constructed' = NewAbstractMesh(rawArrays.vertexCoords, rawArrays.faceVertexIDs,
                                      rawArrays.cellFaceIDs)
    /\ UNCHANGED <<rawArrays, meshVars, histVars, addVars, subVars, readVars>>

NextNew == NewCall

SpecNew == InitNew /\ [][NextNew]_vars


\* ------------------------------------------------------------------------
\* Claims
\* ------------------------------------------------------------------------

Connected == lastOp = "connect" /\ lastResult = "ok"

CellsListing(f) == {c \in Cells : f \in Range(cellFaceIDs[c])}

AdjacentCells(f) == {faceCellIDs[f][1], faceCellIDs[f][2]} \ {Masked}

\* C1: after a successful _connectFaces(facesA, facesB) whose arguments meet
\* the preconditions, no cell's column of cellFaceIDs holds a face of facesB.
C1_NoCellListsFacesB ==
    (Connected /\ ~lastLenDiffer /\ ~lastNotOpposed) =>
        \A c \in Cells : Range(cellFaceIDs[c]) \cap Range(lastFaces1) = {}

\* C2: a successful _connectFaces with lists of equal length changes
\* cellFaceIDs only where an entry was facesB[k], which becomes facesA[k] in
\* the same table position; the column of a cell adjacent to no facesB face
\* is unchanged; and on the 2x2 grid, connecting <<6, 9>> to <<8, 11>>
\* leaves rows [0,1,2,3], [2,3,4,5], [6,7,9,10] and turns row [7,8,10,11]
\* into [7,6,10,9].
C2_CellFaceIDsFrame ==
    [][ (lastOp' = "connect" /\ lastResult' = "ok" /\ ~lastLenDiffer') =>
          /\ \A c \in Cells : \A i \in DOMAIN cellFaceIDs[c] :
               \/ cellFaceIDs'[c][i] = cellFaceIDs[c][i]
               \/ \E k \in 1..Len(lastFaces1') :
                     /\ cellFaceIDs[c][i] = lastFaces1'[k]
                     /\ cellFaceIDs'[c][i] = lastFaces0'[k]
          /\ \A c \in Cells :
               (\A f \in Range(lastFaces1') : c \notin AdjacentCells(f))
                   => cellFaceIDs'[c] = cellFaceIDs[c]
          /\ (lastFaces0' = <<6, 9>> /\ lastFaces1' = <<8, 11>>) =>
               /\ [c \in Cells |-> cellFaceIDs'[c][1]] = [c \in Cells |-> cellFaceIDs[c][1]]
               /\ [c \in Cells |-> cellFaceIDs'[c][3]] = [c \in Cells |-> cellFaceIDs[c][3]]
               /\ [c \in Cells |-> cellFaceIDs'[c][4]] = [c \in Cells |-> cellFaceIDs[c][4]]
               /\ [c \in Cells |-> cellFaceIDs[c][1]] = (0 :> 0 @@ 1 :> 1 @@ 2 :> 2 @@ 3 :> 3)
               /\ [c \in Cells |-> cellFaceIDs[c][3]] = (0 :> 2 @@ 1 :> 3 @@ 2 :> 4 @@ 3 :> 5)
               /\ [c \in Cells |-> cellFaceIDs[c][4]] = (0 :> 6 @@ 1 :> 7 @@ 2 :> 9 @@ 3 :> 10)
               /\ [c \in Cells |-> cellFaceIDs[c][2]] = (0 :> 7 @@ 1 :> 8 @@ 2 :> 10 @@ 3 :> 11)
               /\ [c \in Cells |-> cellFaceIDs'[c][2]] = (0 :> 7 @@ 1 :> 6 @@ 2 :> 10 @@ 3 :> 9)
      ]_vars

\* C2 witness: the doctest's call has succeeded and cell 1 now lists face 6
C2_Witness ==
    /\ Connected
    /\ lastFaces0 = <<6, 9>>
    /\ lastFaces1 = <<8, 11>>
    /\ cellFaceIDs[1][2] = 6

\* C3: a _connectFaces that names a face that is not exterior fails on its
\* assertion and leaves every array and the scale as they were.
C3_NonExteriorRejected ==
    [][ (lastOp' = "connect" /\ lastNonExterior') =>
          (lastResult' = "AssertionError" /\ UNCHANGED meshVars) ]_vars

\* C3 witness: a call naming a non-exterior face has been made and has failed
C3_Witness ==
    lastOp = "connect" /\ lastNonExterior /\ lastResult = "AssertionError"

\* C4: _connectFaces fails, the mesh unmodified, whenever the lists differ in
\* length or some position is not an opposed pair.
C4_MismatchRejected ==
    (lastOp = "connect" /\ (lastLenDiffer \/ lastNotOpposed)) =>
        (lastResult # "ok" /\ ~lastMutated)

\* C5: after a successful _connectFaces every face of facesB is still in
\* exteriorFaces and every face of facesA is in interiorFaces, with two
\* present adjacent cells.
C5_FacesBExteriorFacesAInterior ==
    Connected =>
        /\ Range(lastFaces1) \subseteq exteriorFaces
        /\ Range(lastFaces0) \subseteq interiorFaces
        /\ \A f \in Range(lastFaces0) : Cardinality(AdjacentCells(f)) >= 1
                                        /\ faceCellIDs[f][2] # Masked

\* C6 as claimed: in every reachable state, F is in C's column of cellFaceIDs
\* iff C is in F's column of faceCellIDs.
C6_InverseConsistency ==
    \A f \in Faces : CellsListing(f) = AdjacentCells(f)

\* C6 amended: as long as no caller has assigned cellFaceIDs, after any
\* sequence of _connectFaces calls the equivalence holds for every face but
\* the faces of facesB of the calls that got past their assertions and the
\* faces of facesA of those of them whose lists were not well-formed; the
\* faces of facesA of a well-formed call are covered.
C6_InverseConsistencyButFacesB ==
    ~cellFaceIDsAssigned =>
        \A f \in Faces \ exempt : CellsListing(f) = AdjacentCells(f)

\* C6 witness: two connections in sequence, [4] to [6] and then [2, 3] to
\* [0, 1], on tables no caller assigned: the exempt faces are the three of
\* facesB, and the three faces of facesA, now interior, are covered
C6_Witness ==
    /\ calls = 2 /\ Connected /\ ~cellFaceIDsAssigned
    /\ lastFaces0 = <<2, 3>> /\ lastFaces1 = <<0, 1>>
    /\ exempt = {0, 1, 6}
    /\ \A f \in {2, 3, 4} : /\ faceCellIDs[f][2] # Masked
                            /\ CellsListing(f) = AdjacentCells(f)
    /\ AdjacentCells(4) = {0, 1}

\* C7: in every reachable state every face is in exactly one of
\* interiorFaces / exteriorFaces, and it is interior iff both entries of its
\* faceCellIDs column are present.
C7_Partition ==
    /\ interiorFaces \cup exteriorFaces = Faces
    /\ interiorFaces \cap exteriorFaces = {}
    /\ Cardinality(interiorFaces) + Cardinality(exteriorFaces) = Cardinality(Faces)
    /\ \A f \in Faces : f \in interiorFaces <=> faceCellIDs[f][2] # Masked

\* ------------------------------------------------------------------------
\* Concatenation: the claims
\* ------------------------------------------------------------------------

Called == added.status # "not called"

\* vertices of m that lie on an exterior face, and those that lie on none
ExteriorVertices(m) ==
    {v \in AllVertices(m) : \E f \in m.exteriorFaces : v \in Range(m.faceVertexIDs[f])}

InteriorVertices(m) == AllVertices(m) \ ExteriorVertices(m)

\* the squared distance between vertex a of self and vertex b of other
D2(a, b) == SqDist(addSelf.vertexCoords[a], addOther.vertexCoords[b])

\* C8: a concatenation of two meshes of different dimensions ends in
\* MeshAdditionError with nothing matched, nothing built and nothing
\* returned, and leaves both meshes as they were.
C8_DimensionMismatchRejected ==
    [][ (addSelf.dim # addOther.dim /\ ~Called /\ added' # added)
            => /\ added' = NoValues("MeshAdditionError")
               /\ addSelf' = addSelf
               /\ addOther' = addOther ]_vars

C8_Witness ==
    /\ added.status = "MeshAdditionError"
    /\ addSelf.dim = 2
    /\ addOther.dim = 1

\* how often x occurs in the sequence s
Count(s, x) == Cardinality({i \in 1..Len(s) : s[i] = x})

SelfConcatenation ==
    /\ added.status = "ok"
    /\ addOther = addSelf
    /\ addResolution = DefaultResolution

\* every exterior vertex and every exterior face of A is matched exactly once
MatchedOnce ==
    /\ \A v \in ExteriorVertices(addSelf) :
          Count([k \in 1..Len(added.vertexCorrelates) |->
                    added.vertexCorrelates[k][1]], v) = 1
    /\ \A f \in addSelf.exteriorFaces :
          /\ Count(added.faceCorrelates.self, f) = 1
          /\ Count(added.faceCorrelates.other, f) = 1

\* C9 as stated: A concatenated with itself matches every exterior vertex
\* and face once and has as many vertices, faces and cells as A.
C9_SelfConcatenationCollapses ==
    SelfConcatenation =>
        /\ MatchedOnce
        /\ Cardinality(DOMAIN added.vertexCoords) = addSelf.numberOfVertices
        /\ Cardinality(DOMAIN added.faceVertexIDs) = addSelf.numberOfFaces
        /\ Cardinality(DOMAIN added.cellFaceIDs) = addSelf.numberOfCells

\* C9 as the code has it: A concatenated with itself at the default
\* resolution matches every exterior vertex and every exterior face of A
\* exactly once, each with itself, and no interior vertex; the result keeps
\* A's cells and adds a copy of each (2 x numberOfCells), adds a copy of each
\* interior vertex, and adds a copy of each face that has an interior vertex.
C9_SelfConcatenationDoubles ==
    SelfConcatenation =>
        /\ MatchedOnce
        /\ Range(added.vertexCorrelates) = {<<v, v>> : v \in ExteriorVertices(addSelf)}
        /\ \A k \in 1..Len(added.faceCorrelates.self) :
              added.faceCorrelates.self[k] = added.faceCorrelates.other[k]
        /\ Cardinality(DOMAIN added.vertexCoords)
              = addSelf.numberOfVertices + Cardinality(InteriorVertices(addSelf))
        /\ Cardinality(DOMAIN added.faceVertexIDs)
              = addSelf.numberOfFaces
                + Cardinality({f \in DOMAIN addSelf.faceVertexIDs :
                      Range(addSelf.faceVertexIDs[f]) \cap InteriorVertices(addSelf) # {}})
        /\ Cardinality(DOMAIN added.cellFaceIDs) = 2 * addSelf.numberOfCells
        /\ \A c \in DOMAIN addSelf.cellFaceIDs :
              added.cellFaceIDs[c] = addSelf.cellFaceIDs[c]

\* a mesh with an interior vertex concatenated with itself
C9_Witness ==
    /\ SelfConcatenation
    /\ InteriorVertices(addSelf) # {}
    /\ Cardinality(DOMAIN added.cellFaceIDs) = 8

\* the correlation was computed: the call got past the dimension check
Correlated == Called /\ added.status # "MeshAdditionError"

\* distance < resolution x min(min cell-to-cell distance of A, of B), on the
\* squared distance d2 and the doubled cell-to-cell distances
WithinThreshold(d2) ==
    LET m2 == Min(CellToCellDistancesMin(addSelf), CellToCellDistancesMin(addOther))
    IN  4 * addResolution[2] * addResolution[2] * d2
            < addResolution[1] * addResolution[1] * m2 * m2

AtThreshold(d2) ==
    LET m2 == Min(CellToCellDistancesMin(addSelf), CellToCellDistancesMin(addOther))
    IN  4 * addResolution[2] * addResolution[2] * d2
            = addResolution[1] * addResolution[1] * m2 * m2

\* b is the exterior vertex of B nearest to a, the lowest ID among equals
NearestOther(a, b) ==
    /\ b \in ExteriorVertices(addOther)
    /\ \A b2 \in ExteriorVertices(addOther) :
          D2(a, b) < D2(a, b2) \/ (D2(a, b) = D2(a, b2) /\ b <= b2)

\* a is the exterior vertex of A nearest to b, the lowest ID among equals
NearestSelf(a, b) ==
    /\ a \in ExteriorVertices(addSelf)
    /\ \A a2 \in ExteriorVertices(addSelf) :
          D2(a, b) < D2(a2, b) \/ (D2(a, b) = D2(a2, b) /\ a <= a2)

\* C10 as stated: the pairs are, for each exterior vertex a of A, a with its
\* nearest exterior vertex b of B (lowest B ID on a tie) iff their distance
\* is strictly below the threshold.
C10_PerSelfVertex ==
    Correlated =>
        \A a \in AllVertices(addSelf), b \in AllVertices(addOther) :
            <<a, b>> \in Range(added.vertexCorrelates)
                <=> /\ a \in ExteriorVertices(addSelf)
                    /\ NearestOther(a, b)
                    /\ WithinThreshold(D2(a, b))

\* C10 as the code has it: the pairs are, for each exterior vertex b of B
\* (other), b with its nearest exterior vertex a of A (self), the lowest A ID
\* on a distance tie, iff their distance is strictly below resolution x
\* min(min cell-to-cell distance of A, min cell-to-cell distance of B); a
\* distance equal to the threshold does not match, no pair involves an
\* interior vertex, and the pairs are listed once each in ascending order of
\* B's vertex ID.
C10_PerOtherVertex ==
    Correlated =>
        /\ \A a \in AllVertices(addSelf), b \in AllVertices(addOther) :
              <<a, b>> \in Range(added.vertexCorrelates)
                  <=> /\ b \in ExteriorVertices(addOther)
                      /\ NearestSelf(a, b)
                      /\ WithinThreshold(D2(a, b))
        /\ \A k \in 1..(Len(added.vertexCorrelates) - 1) :
              added.vertexCorrelates[k][2] < added.vertexCorrelates[k + 1][2]

\* a call that paired a vertex of B with the lower of two equally near
\* vertices of A, and left out a vertex of B whose nearest vertex of A is
\* exactly at the threshold
C10_Witness ==
    /\ Correlated
    /\ \E p \in Range(added.vertexCorrelates) :
          \E a2 \in ExteriorVertices(addSelf) : a2 > p[1] /\ D2(a2, p[2]) = D2(p[1], p[2])
    /\ \E b \in ExteriorVertices(addOther) :
          /\ \A p \in Range(added.vertexCorrelates) : p[2] # b
          /\ \E a \in ExteriorVertices(addSelf) : NearestSelf(a, b) /\ AtThreshold(D2(a, b))

\* the pairs <<face of A, face of B>> with the same set of vertex IDs once
\* B's vertices are renumbered
SameVertexSets ==
    LET vm == VertexMap(addSelf.numberOfVertices, addOther.numberOfVertices,
                        added.vertexCorrelates)
    IN  {p \in (DOMAIN addSelf.faceVertexIDs) \X (DOMAIN addOther.faceVertexIDs) :
            Range(addSelf.faceVertexIDs[p[1]])
                = {vm[v] : v \in Range(addOther.faceVertexIDs[p[2]])}}

\* C11: at the default resolution the faces correlated are exactly the pairs
\* with identical renumbered vertex sets, no face is in two pairs, and the
\* two rows of faceCorrelates pair up position for position.
C11_FacesCorrelatedIffSameVertexSets ==
    (added.status = "ok" /\ addResolution = DefaultResolution) =>
        LET fc == added.faceCorrelates
        IN  /\ Len(fc.self) = Len(fc.other)
            /\ {<<fc.self[k], fc.other[k]>> : k \in 1..Len(fc.self)} = SameVertexSets
            /\ \A k \in 1..Len(fc.self) : Count(fc.self, fc.self[k]) = 1
            /\ \A k \in 1..Len(fc.other) : Count(fc.other, fc.other[k]) = 1

\* the numbers of vertices, faces and cells of the returned connectivity
AddedSizes ==
    << Cardinality(DOMAIN added.vertexCoords),
       Cardinality(DOMAIN added.faceVertexIDs),
       Cardinality(DOMAIN added.cellFaceIDs) >>

\* C12: when both meshes have vertices and no vertex of one is matched with
\* a vertex of the other (so that no face is matched either), the
\* concatenation gives both warnings, completes without raising and returns
\* all of A's and all of B's vertices, faces and cells.
C12_NonTouchingCompletes ==
    ( /\ Called
      /\ IsAbstractMesh(addOther)
      /\ DimensionsMatch(addSelf, addOther)
      /\ addSelf.numberOfVertices > 0 /\ addOther.numberOfVertices > 0
      /\ Len(added.vertexCorrelates) = 0 )
    =>
        /\ added.status = "ok"
        /\ added.warnings = {"Vertices are not aligned", "Faces are not aligned"}
        /\ AddedSizes = << addSelf.numberOfVertices + addOther.numberOfVertices,
                           addSelf.numberOfFaces + addOther.numberOfFaces,
                           addSelf.numberOfCells + addOther.numberOfCells >>

\* ------------------------------------------------------------------------
\* The face connector: further claims
\* ------------------------------------------------------------------------

\* C13: a _connectFaces that fails, wherever it fails, leaves faceCellIDs,
\* cellFaceIDs, the face normals, faceToCellDistances and cellDistances
\* exactly as they were before the call.
C13_AllOrNothing ==
    [][ (lastOp' = "connect" /\ calls' = calls + 1 /\ lastResult' # "ok") =>
          UNCHANGED <<faceCellIDs, cellFaceIDs, faceNormals,
                      faceToCellDistances, cellDistances>> ]_vars

\* C14: whoever took a reference to the mesh's faceCellIDs, cellFaceIDs,
\* _faceNormals, _faceToCellDistances, _cellDistances or scale mapping before
\* a _connectFaces sees every one of these objects unchanged after it, and a
\* concatenation writes in place to no array of either of its meshes, which
\* are as they were after it.
C14_CopyOnWrite ==
    [][ /\ (lastOp' = "connect" /\ calls' = calls + 1) => held' = held
        /\ (~Called /\ Called') =>
              /\ added'.written \cap InputArrays = {}
              /\ addSelf' = addSelf /\ addOther' = addOther ]_vars

\* a successful _connectFaces after which the mesh's faceCellIDs and
\* cellFaceIDs differ from the objects held, followed by a concatenation
\* that wrote to arrays of its own
C14_Witness ==
    /\ lastOp = "connect"
    /\ lastResult = "ok"
    /\ held.faceCellIDs # faceCellIDs
    /\ held.cellFaceIDs # cellFaceIDs
    /\ held.scale = scale
    /\ "faceCellIDs" \notin sameObject
    /\ "scale" \in sameObject
    /\ added.status = "ok"
    /\ Cardinality(added.written) = 2

\* C17: setting the scale to a length that is zero or negative is rejected
\* and the stored length stays what it was, so that scale['length'] is
\* positive in every state.
C17_ScaleStaysPositive == scale > 0

\* a step that is a _connectFaces which got past its assertions with two
\* lists of the same length
PairedConnect ==
    /\ lastOp' = "connect"
    /\ calls' = calls + 1
    /\ lastFaces0' # <<>>
    /\ Len(lastFaces0') = Len(lastFaces1')

\* ... in which no face is named twice
WellFormedConnect ==
    /\ PairedConnect
    /\ Cardinality(Range(lastFaces0') \cup Range(lastFaces1')) = 2 * Len(lastFaces0')

\* position i is the one whose write to facesA[i] stays
LastOf(i) == \A j \in 1..Len(lastFaces0') : lastFaces0'[j] = lastFaces0'[i] => j <= i

\* C19 as stated: the second slot of facesA[i] holds the cell that owned
\* facesB[i], the first slot still holds facesA[i]'s own cell, and every
\* face outside facesA keeps both slots.
C19_OwnerStaysFirst ==
    [][ WellFormedConnect =>
          /\ \A i \in 1..Len(lastFaces0') :
                faceCellIDs'[lastFaces0'[i]]
                    = << faceCellIDs[lastFaces0'[i]][1], faceCellIDs[lastFaces1'[i]][1] >>
          /\ \A f \in Faces \ Range(lastFaces0') : faceCellIDs'[f] = faceCellIDs[f] ]_vars

\* C19 as the code has it: for each pair i (the last one, where facesA names
\* a face more than once) the first slot of faceCellIDs at facesA[i] holds
\* the cell that owned facesB[i] before the call and the second slot holds
\* facesA[i]'s own cell of before the call; both slots of every face outside
\* facesA, the faces of facesB that facesA does not name among them, are
\* unchanged.
C19_OtherOwnerFirst ==
    [][ PairedConnect =>
          /\ \A i \in 1..Len(lastFaces0') :
                LastOf(i) =>
                    faceCellIDs'[lastFaces0'[i]]
                        = << faceCellIDs[lastFaces1'[i]][1], faceCellIDs[lastFaces0'[i]][1] >>
          /\ \A f \in Faces \ Range(lastFaces0') : faceCellIDs'[f] = faceCellIDs[f] ]_vars

\* the left boundary face, of cell 0, connected to the right one, of cell 1
C19_Witness ==
    /\ lastOp = "connect"
    /\ lastResult = "ok"
    /\ lastFaces0 = <<4>>
    /\ lastFaces1 = <<6>>
    /\ faceCellIDs[4] = <<1, 0>>
    /\ faceCellIDs[6] = <<1, Masked>>

\* every face the step names had one adjacent cell before the call: the
\* faces marked exterior were the faces on the boundary
NamedOnBoundary ==
    \A f \in Range(lastFaces0') \cup Range(lastFaces1') : faceCellIDs[f][2] = Masked

\* C20: for each pair i of a _connectFaces on faces of the boundary, the new
\* cellDistances at facesA[i] is the sum of the distances, before the call,
\* of facesA[i] and of facesB[i] to their cells, the two slots of
\* faceToCellDistances at facesA[i] hold those two distances, and the
\* distances of every face outside facesA are unchanged.
C20_DistancesSummed ==
    [][ (PairedConnect /\ NamedOnBoundary) =>
          /\ \A i \in 1..Len(lastFaces0') :
                LET fA == lastFaces0'[i]
                    dA == faceToCellDistances[fA][1]
                    dB == faceToCellDistances[lastFaces1'[i]][1]
                IN  /\ cellDistances'[fA] = dA + dB
                    /\ faceToCellDistances'[fA] \in {<<dA, dB>>, <<dB, dA>>}
          /\ \A f \in Faces \ Range(lastFaces0') :
                /\ cellDistances'[f] = cellDistances[f]
                /\ faceToCellDistances'[f] = faceToCellDistances[f] ]_vars

\* on the grid whose right cell is twice as wide the left boundary face, at
\* distance 1 from its cell, has been connected to the right boundary face,
\* at distance 2 from its own (the distances doubled)
C20_Witness ==
    /\ lastOp = "connect"
    /\ lastResult = "ok"
    /\ lastFaces0 = <<4>>
    /\ lastFaces1 = <<6>>
    /\ faceAreas[1] = 2
    /\ faceToCellDistances[4] = <<2, 1>>
    /\ cellDistances[4] = 3
    /\ cellDistances[6] = 2

\* the consumers the references of a list point to
Targets(subs) == [i \in 1..Len(subs) |-> subs[i].target]

\* the entries of a list of consumers that are alive (in the next state)
LiveNext(cs) == Compress(cs, {i \in 1..Len(cs) : alive'[cs[i]]})

\* C15: getSubscribedVariables returns exactly the subscriptions whose
\* consumer is alive, in subscription order; no other step removes an entry
\* from the list, _subscribe appends one, and the live subscriptions are
\* in the list after every step.
C15_LiveSubscriptionsReturned ==
    [][ /\ subOp' = "get" =>
              /\ Targets(returned') = LiveNext(subscriptions')
              /\ \A i \in 1..Len(returned') : returned'[i].weak
        /\ subOp' # "get" =>
              SubSeq(subscribedVariables', 1, Len(subscribedVariables)) = subscribedVariables
        /\ subOp' = "subscribe" =>
              Len(subscribedVariables') = Len(subscribedVariables) + 1
        /\ LiveNext(Targets(subscribedVariables')) = LiveNext(subscriptions') ]_vars

\* a dead subscription has been left out and a live one handed back
C15_Witness ==
    /\ subOp = "get"
    /\ Len(returned) > 0
    /\ Len(returned) < Len(subscriptions)

\* C16: a consumer that is alive has an owner outside the mesh, whatever
\* has been subscribed: the mesh never keeps a consumer alive.
C16_MeshKeepsNothingAlive ==
    \A c \in Consumers : alive[c] => owners[c] > 0

\* a consumer subscribed twice has been reclaimed after a
\* getSubscribedVariables handed the list back: both references are still in
\* the list, which is the list the caller has
C16_Witness ==
    \E c \in Consumers :
        /\ ~alive[c]
        /\ handedBack
        /\ subOp = "release"
        /\ returned = subscribedVariables
        /\ Cardinality({i \in 1..Len(subscribedVariables) :
                            subscribedVariables[i].target = c}) = 2
        /\ Len(subscriptions) = 2

\* every ID of the raw arrays is in range
IDsInRange ==
    /\ \A i \in 1..Len(rawArrays.faceVertexIDs) :
          rawArrays.faceVertexIDs[i] \in 0..(Len(rawArrays.vertexCoords) - 1)
    /\ \A i \in 1..Len(rawArrays.cellFaceIDs) :
          rawArrays.cellFaceIDs[i] \in 0..(Len(rawArrays.faceVertexIDs) - 1)

\* C18: a mesh is constructed only from raw arrays whose face table names
\* vertices in [0, numberOfVertices) and whose cell table names faces in
\* [0, numberOfFaces); otherwise construction fails and there is no mesh.
C18_ConstructionValidatesIDs ==
    constructed = "constructed" => IDsInRange

\* the positions of a statement in the statements a call has executed
PositionsOf(steps, statement) == {i \in 1..Len(steps) : steps[i] = statement}

\* the statements that write one of the connectivity or geometry arrays
ArrayRewrites ==
    {"faceCellIDs.put", "_faceToCellDistances.put", "_cellDistances",
     "_faceNormals.put", "cellFaceIDs.put"}

\* C21: a _connectFaces that succeeds has rewritten every array, then
\* computed the topology, then recomputed the geometry, then set the scale
\* again as its last statement: each of these was executed once, the
\* partition into exterior and interior faces is the one of the rewritten
\* faceCellIDs, and the scale length is the one the call found.
C21_StepOrderAndScale ==
    [][ (lastOp' = "connect" /\ calls' = calls + 1 /\ lastResult' = "ok") =>
          LET steps == lastSteps'
              topology == PositionsOf(steps, "_setTopology")
              geometry == PositionsOf(steps, "_handleFaceConnection")
              rescale == PositionsOf(steps, "scale")
          IN  /\ Cardinality(topology) = 1
              /\ Cardinality(geometry) = 1
              /\ rescale = {Len(steps)}
              /\ \A a \in ArrayRewrites :
                    /\ PositionsOf(steps, a) # {}
                    /\ \A i \in PositionsOf(steps, a) : \A t \in topology : i < t
              /\ \A t \in topology : \A g \in geometry : t < g
              /\ \A g \in geometry : g < Len(steps)
              /\ exteriorFaces' = ExteriorOf(faceCellIDs')
              /\ interiorFaces' = InteriorOf(faceCellIDs')
              /\ scale' = scale ]_vars

\* a mesh whose scale had been set to 2 has been connected: the face of
\* facesA is interior now
C21_Witness ==
    /\ lastOp = "connect"
    /\ lastResult = "ok"
    /\ calls = 2
    /\ scale = 2
    /\ lastSteps # <<>>
    /\ lastSteps[Len(lastSteps)] = "scale"
    /\ lastFaces0 = <<4>>
    /\ 4 \in interiorFaces

\* ------------------------------------------------------------------------
\* The concatenation: renumbering
\* ------------------------------------------------------------------------

\* the vertices of B that were matched, and the others in increasing order
MatchedVertices == {added.vertexCorrelates[k][2] : k \in 1..Len(added.vertexCorrelates)}

UnmatchedVertices == Ascending((0..(addOther.numberOfVertices - 1)) \ MatchedVertices)

\* the new ID of vertex v of B: the ID of the vertex of A it was matched
\* with, or the next free ID after those of A
RenumberedVertex(v) ==
    IF v \in MatchedVertices
    THEN added.vertexCorrelates[CHOOSE k \in 1..Len(added.vertexCorrelates) :
                                    added.vertexCorrelates[k][2] = v][1]
    ELSE addSelf.numberOfVertices + IndexOf(UnmatchedVertices, v) - 1

\* the faces of B that were matched, and the others in increasing order
MatchedFaces == Range(added.faceCorrelates.other)

UnmatchedFaces == Ascending((0..(addOther.numberOfFaces - 1)) \ MatchedFaces)

\* the new ID of face f of B: the ID of the face of A it was matched with
\* (the one face of A, where a single one was matched), or the next free ID
\* after those of A
RenumberedFace(f) ==
    IF f \in MatchedFaces
    THEN Cyc(added.faceCorrelates.self,
             CHOOSE k \in 1..Len(added.faceCorrelates.other) :
                 added.faceCorrelates.other[k] = f)
    ELSE addSelf.numberOfFaces + IndexOf(UnmatchedFaces, f) - 1

\* the entries of a table that are IDs
IDsOf(tbl) == {tbl[x][k] : x \in DOMAIN tbl, k \in 1..NumRows(tbl)} \ {Masked}

\* C22: every vertex of B has a new ID: a matched one the ID of its
\* counterpart in A, the unmatched ones, in increasing order of their IDs,
\* the IDs numberOfVertices(A), numberOfVertices(A) + 1, ...; the returned
\* vertexCoords has numberOfVertices(A) + (number of unmatched) columns, the
\* added ones being those of the unmatched vertices in that order, the
\* vertex lists of the added faces are those of B renumbered, and every
\* vertex ID of the returned faceVertexIDs is below that count.
C22_VertexRenumbering ==
    added.status = "ok" =>
        LET nA == addSelf.numberOfVertices
            count == nA + Len(UnmatchedVertices)
        IN  /\ \A v \in 0..(addOther.numberOfVertices - 1) : RenumberedVertex(v) \in 0..(count - 1)
            /\ \A v \in MatchedVertices : RenumberedVertex(v) \in ExteriorVertices(addSelf)
            /\ DOMAIN added.vertexCoords = 0..(count - 1)
            /\ \A a \in 0..(nA - 1) : added.vertexCoords[a] = addSelf.vertexCoords[a]
            /\ \A j \in 1..Len(UnmatchedVertices) :
                  added.vertexCoords[nA + j - 1] = addOther.vertexCoords[UnmatchedVertices[j]]
            /\ \A i \in 1..Len(UnmatchedFaces) :
                  LET old == addOther.faceVertexIDs[UnmatchedFaces[i]]
                      new == added.faceVertexIDs[addSelf.numberOfFaces + i - 1]
                  IN  new = [k \in 1..Len(old) |-> RenumberedVertex(old[k])]
            /\ IDsOf(added.faceVertexIDs) \subseteq 0..(count - 1)

\* a face of B was added that has a matched and an unmatched vertex
C22_Witness ==
    /\ added.status = "ok"
    /\ \E i \in 1..Len(UnmatchedFaces) :
          LET old == addOther.faceVertexIDs[UnmatchedFaces[i]]
          IN  /\ \E k \in 1..Len(old) : old[k] \in MatchedVertices
              /\ \E k \in 1..Len(old) :
                    /\ old[k] \notin MatchedVertices
                    /\ RenumberedVertex(old[k]) > addSelf.numberOfVertices
                    /\ RenumberedVertex(old[k]) # old[k] + addSelf.numberOfVertices

\* C23: the returned cellFaceIDs is the columns of A as they were, followed
\* by the columns of B in B's order with every face ID renumbered: a matched
\* face to the ID of its counterpart in A, the unmatched ones, in increasing
\* order of their IDs, to numberOfFaces(A), numberOfFaces(A) + 1, ..., which
\* is where their vertex lists stand in faceVertexIDs; every face ID of the
\* result is below the number of returned faces.
C23_FaceRenumbering ==
    added.status = "ok" =>
        LET nA == addSelf.numberOfCells
            nB == addOther.numberOfCells
            faces == addSelf.numberOfFaces + Len(UnmatchedFaces)
        IN  /\ DOMAIN added.cellFaceIDs = 0..(nA + nB - 1)
            /\ DOMAIN added.faceVertexIDs = 0..(faces - 1)
            /\ \A c \in 0..(nA - 1) :
                  SubSeq(added.cellFaceIDs[c], 1, Len(addSelf.cellFaceIDs[c]))
                      = addSelf.cellFaceIDs[c]
            /\ \A c \in 0..(nB - 1) :
                  SubSeq(added.cellFaceIDs[nA + c], 1, Len(addOther.cellFaceIDs[c]))
                      = [k \in 1..Len(addOther.cellFaceIDs[c]) |->
                            RenumberedFace(addOther.cellFaceIDs[c][k])]
            /\ \A i \in 1..Len(UnmatchedFaces) :
                  LET old == addOther.faceVertexIDs[UnmatchedFaces[i]]
                      new == added.faceVertexIDs[RenumberedFace(UnmatchedFaces[i])]
                  IN  new = [k \in 1..Len(old) |-> RenumberedVertex(old[k])]
            /\ IDsOf(added.cellFaceIDs) \subseteq 0..(faces - 1)

\* the 2 x 2 grid and itself translated by two cell widths: 8 cells, the
\* two faces on the common side matched and the others of B renumbered
C23_Witness ==
    /\ added.status = "ok"
    /\ addSelf = Grid2D(2, 2, 1, 1, 0, 0)
    /\ addOther = Grid2D(2, 2, 1, 1, 2, 0)
    /\ Cardinality(DOMAIN added.cellFaceIDs) = 8
    /\ Len(added.faceCorrelates.other) = 2
    /\ Cardinality(DOMAIN added.faceVertexIDs) = 22

\* C24: every face of A that was correlated is an exterior face of A and
\* every face of B that was correlated is an exterior face of B; an interior
\* face is never merged.
C24_OnlyExteriorFacesCorrelated ==
    Correlated =>
        /\ Range(added.faceCorrelates.self) \subseteq addSelf.exteriorFaces
        /\ Range(added.faceCorrelates.other) \subseteq addOther.exteriorFaces

\* a table is rectangular, of height n
Rectangular(tbl, n) == \A x \in DOMAIN tbl : Len(tbl[x]) = n

\* column x of the table out is column col with absent entries below it
PaddedColumn(out, col) ==
    /\ Len(out) >= Len(col)
    /\ \A k \in 1..Len(out) : (k > Len(col) \/ col[k] = Masked) <=> out[k] = Masked

\* C25: when the face tables or the cell tables of A and B have different
\* heights, whichever is the lower, the concatenation completes and returns
\* a faceVertexIDs and a cellFaceIDs that are rectangular, of the greater of
\* the two heights, in which the entries below a column of the lower table,
\* and no others, are absent.
C25_LowerTablePadded ==
    ( /\ Called
      /\ IsAbstractMesh(addOther)
      /\ addSelf.dim = addOther.dim
      /\ Len(added.faceCorrelates.self) = Len(added.faceCorrelates.other)
      /\ \/ NumRows(addSelf.faceVertexIDs) # NumRows(addOther.faceVertexIDs)
         \/ NumRows(addSelf.cellFaceIDs) # NumRows(addOther.cellFaceIDs) )
    =>
        /\ added.status = "ok"
        /\ Rectangular(added.faceVertexIDs,
                       Max(NumRows(addSelf.faceVertexIDs), NumRows(addOther.faceVertexIDs)))
        /\ Rectangular(added.cellFaceIDs,
                       Max(NumRows(addSelf.cellFaceIDs), NumRows(addOther.cellFaceIDs)))
        /\ \A f \in DOMAIN addSelf.faceVertexIDs :
              PaddedColumn(added.faceVertexIDs[f], addSelf.faceVertexIDs[f])
        /\ \A c \in DOMAIN addSelf.cellFaceIDs :
              PaddedColumn(added.cellFaceIDs[c], addSelf.cellFaceIDs[c])
        /\ \A c \in DOMAIN addOther.cellFaceIDs :
              PaddedColumn(added.cellFaceIDs[addSelf.numberOfCells + c],
                           addOther.cellFaceIDs[c])

\* C26: a read of _cellDistanceNormals ends, and ends with a value: the
\* getter does not go on entering itself.
C26_ReadYieldsValue == (readDepth > 0) ~> (readResult = "value")

====
